---- MODULE Spec2Model ----
(***************************************************************************)
(* Image Definitions: the entity store (ProductGroup -> Product ->         *)
(* Architecture -> Variant -> Artifact), the REST handlers over it and the *)
(* bootstrap loader that seeds it from a configuration document.           *)
(*                                                                         *)
(* One action per request handler and one for a whole bootstrap run; each  *)
(* handler runs in its own session and commits before the next starts.     *)
(* req and resp record the last request and what the caller was told.      *)
(***************************************************************************)
EXTENDS Integers, Sequences, FiniteSets, TLC

VARIABLES product_groups, products, architectures, variants, artifacts,
          now, req, resp

tables == <<product_groups, products, architectures, variants, artifacts>>
vars == <<product_groups, products, architectures, variants, artifacts, now, req, resp>>

(***************************************************************************)
(* Bounds of the model.                                                    *)
(***************************************************************************)
\* largest row id a table hands out
MaxId == 2
\* number of committed writes that stamp a row
MaxClock == 1

(***************************************************************************)
(* Values.                                                                 *)
(***************************************************************************)
\* Python None / SQL NULL in a string column
NULL == "NULL"
\* Optional[int]: <<>> is None, <<n>> is n
NoInt == <<>>
\* Optional[dict] (JSON column): None, or a document with some keys set
NullDoc == [null |-> TRUE, keys |-> {}, releasever |-> 0, stages |-> NULL,
            repository_groups |-> <<>>]

Ids == 1..MaxId

SetMax(S) == CHOOSE m \in S : \A n \in S : n <= m

\* result.scalar_one_or_none(): no row, the row, or MultipleResultsFound
ScalarOneOrNone(rows) ==
    IF rows = {} THEN [n |-> 0]
    ELSE IF Cardinality(rows) = 1 THEN [n |-> 1, row |-> CHOOSE r \in rows : TRUE]
    ELSE [n |-> 2]

\* select(T).where(T.id == id); ByIdNone is a lookup that finds no row
ByIdNone(table, id) == {}
ById(table, id) == {r \in table : r.id = id}

\* select(ProductGroup).where(ProductGroup.name == name); the unique index on
\* product_groups.name compares names the same way; GroupsNamedNever is a
\* lookup that finds no name taken
GroupsNamedNever(table, name) == {}
GroupsNamed(table, name) == {g \in table : g.name = name}

(***************************************************************************)
(* What the declarative base gives every row: a server-assigned integer    *)
(* id and created_at / updated_at stamped by the store.                    *)
(***************************************************************************)
NextId(table) == IF table = {} THEN 1 ELSE SetMax({r.id : r \in table}) + 1

Inserted(fields, id, t) ==
    [id |-> id, created_at |-> t, updated_at |-> t] @@ fields

Refreshed(row, t) == [row EXCEPT !.updated_at = t]

\* room left, within the bounds, for one more stamped row in the table
CanInsert(table) == NextId(table) <= MaxId /\ now < MaxClock
CanStamp == now < MaxClock

(***************************************************************************)
(* Request payloads (pydantic Create / Update schemas).                    *)
(***************************************************************************)
\* names that differ in case only are different names to the store
GroupNames == {"g1", "G1"}

ProductGroupCreate ==
    {[name |-> "g1", description |-> "d1"], [name |-> "G1", description |-> NULL]}
ProductCreate ==
    {[name |-> "p1", description |-> NULL, version |-> "9", product_group_id |-> g]
        : g \in Ids}
    \cup {[name |-> "p2", description |-> "d1", version |-> NULL, product_group_id |-> g]
        : g \in Ids}
ArchitectureCreate ==
    {[name |-> "x86_64", display_name |-> NULL, description |-> NULL, product_id |-> p]
        : p \in Ids}
VariantCreate ==
    {[name |-> "v1", description |-> "d1", build_config |-> NullDoc,
      architecture_id |-> a] : a \in Ids}
ArtifactCreate ==
    {[name |-> "a1", artifact_type |-> "base_image", status |-> "pending",
      location |-> NULL, region |-> NULL, account_id |-> NULL, size_bytes |-> NoInt,
      checksum |-> NULL, build_id |-> NULL, build_metadata |-> NullDoc,
      variant_id |-> v] : v \in Ids}
    \cup {[name |-> "a2", artifact_type |-> "cloud_image", status |-> "completed",
      location |-> "s3://bucket/a2.img", region |-> "us-east-1", account_id |-> NULL,
      size_bytes |-> <<2>>, checksum |-> NULL, build_id |-> NULL,
      build_metadata |-> NullDoc, variant_id |-> v] : v \in Ids}

\* model_dump(exclude_unset=True): the fields the request body names
NoFields == [f \in {} |-> NULL]
ProductGroupUpdate ==
    {NoFields, [name |-> NULL], [description |-> NULL]}
    \cup {[name |-> n, description |-> "d2"] : n \in GroupNames}
ProductUpdate ==
    {[version |-> "10"], [name |-> NULL]}
    \cup {[name |-> "p2", product_group_id |-> g] : g \in Ids}
ArchitectureUpdate ==
    {[display_name |-> "X86 64"], [name |-> NULL]}
    \cup {[description |-> "d2", product_id |-> p] : p \in Ids}
VariantUpdate ==
    {[description |-> "d2"], [name |-> NULL]}
    \cup {[name |-> "v2", architecture_id |-> a] : a \in Ids}
ArtifactUpdate ==
    {[status |-> "failed"], [status |-> NULL]}
    \cup {[size_bytes |-> <<3>>, variant_id |-> v] : v \in Ids}

\* for field, value in update_data.items(): setattr(row, field, value);
\* ApplyPatchNothing is a loop that sets no field
ApplyPatchNothing(row, patch) == row
ApplyPatch(row, patch) ==
    [f \in DOMAIN row |-> IF f \in DOMAIN patch THEN patch[f] ELSE row[f]]

\* nullable=False string columns (a None there fails the commit)
NotNullProductGroup == {"name"}
NotNullProduct == {"name"}
NotNullArchitecture == {"name"}
NotNullVariant == {"name"}
NotNullArtifact == {"name", "artifact_type", "status"}
ViolatesNotNull(row, cols) == \E c \in cols : row[c] = NULL

\* raise HTTPException(status_code, detail); HTTPExceptionOk is a handler
\* that reports the failure under status 200
HTTPExceptionOk(status, detail) == [status |-> 200, detail |-> detail]
HTTPException(status, detail) == [status |-> status, detail |-> detail]
\* f"Product group with name '{name}' already exists"
AlreadyExists(name) == "Product group with name '" \o name \o "' already exists"
ServerError == [status |-> 500, detail |-> "Internal Server Error"]

(***************************************************************************)
(* The store starts empty, or holding the chain the test fixtures commit   *)
(* one row after the other: a group, a product in it, an architecture of   *)
(* the product, a variant of the architecture, an artifact of the variant. *)
(***************************************************************************)
sample_product_group ==
    Inserted([name |-> "g1", description |-> "d1"], 1, -4)
sample_product ==
    Inserted([name |-> "p1", description |-> "d1", version |-> "9",
              product_group_id |-> 1], 1, -3)
sample_architecture ==
    Inserted([name |-> "x86_64", display_name |-> "x86_64", description |-> "d1",
              product_id |-> 1], 1, -2)
sample_variant ==
    Inserted([name |-> "v1", description |-> "d1", build_config |-> NullDoc,
              architecture_id |-> 1], 1, -1)
sample_artifact ==
    Inserted([name |-> "a1", artifact_type |-> "base_image", status |-> "completed",
              location |-> "s3://bucket/a1.img", region |-> NULL, account_id |-> NULL,
              size_bytes |-> NoInt, checksum |-> NULL, build_id |-> NULL,
              build_metadata |-> NullDoc, variant_id |-> 1], 1, 0)

Init ==
    /\ \/ /\ product_groups = {}
          /\ products = {}
          /\ architectures = {}
          /\ variants = {}
          /\ artifacts = {}
       \/ /\ product_groups = {sample_product_group}
          /\ products = {sample_product}
          /\ architectures = {sample_architecture}
          /\ variants = {sample_variant}
          /\ artifacts = {sample_artifact}
    /\ now = 0
    /\ req = [op |-> "none"]
    /\ resp = [status |-> 0]

\* the handler raises (or the commit fails): nothing is written
Fail(r) == resp' = r /\ UNCHANGED <<tables, now>>

(***************************************************************************)
(* ORM relationships, each declared cascade="all, delete-orphan": deleting *)
(* the parent through the session deletes the rows of the collection.      *)
(* VariantArtifactsNoCascade is a relationship declared without cascade.   *)
(***************************************************************************)
IdsOf(rows) == {r.id : r \in rows}
GroupProducts(rows, gids) == {p \in rows : p.product_group_id \in gids}
ProductArchitectures(rows, pids) == {a \in rows : a.product_id \in pids}
ArchitectureVariants(rows, aids) == {v \in rows : v.architecture_id \in aids}
VariantArtifactsNoCascade(rows, vids) == {}
VariantArtifacts(rows, vids) == {a \in rows : a.variant_id \in vids}

\* the parent check of a create / update handler:
\* select(Parent).where(Parent.id == parent_id), scalar_one_or_none() is None;
\* ParentMissingNever is a handler without the check
ParentMissingNever(parents, pid) == FALSE
ParentMissing(parents, pid) == ScalarOneOrNone(ById(parents, pid)).n = 0

(***************************************************************************)
(* /product-groups                                                         *)
(***************************************************************************)
get_product_group(id) ==
    LET found == ScalarOneOrNone(ById(product_groups, id)) IN
    /\ req' = [op |-> "get", kind |-> "product_group", id |-> id]
    /\ resp' = IF found.n = 0 THEN HTTPException(404, "Product group not found")
               ELSE [status |-> 200, body |-> found.row]
    /\ UNCHANGED <<tables, now>>

create_product_group(pg) ==
    /\ req' = [op |-> "create", kind |-> "product_group", data |-> pg]
    /\ IF ScalarOneOrNone(GroupsNamed(product_groups, pg.name)).n = 2
       THEN Fail(ServerError)
       ELSE IF ScalarOneOrNone(GroupsNamed(product_groups, pg.name)).n = 1
       THEN Fail(HTTPException(400, AlreadyExists(pg.name)))
       ELSE /\ CanInsert(product_groups)
            /\ LET row == Inserted(pg, NextId(product_groups), now + 1) IN
                 IF GroupsNamed(product_groups, row.name) # {}
                 THEN Fail(ServerError)
                 ELSE /\ product_groups' = product_groups \cup {row}
                      /\ resp' = [status |-> 201, body |-> row]
                      /\ now' = now + 1
                      /\ UNCHANGED <<products, architectures, variants, artifacts>>

\* "name" in update_data and update_data["name"] != db_product_group.name;
\* NameChangedAlways is a test that takes every supplied name for a change
NameChangedAlways(patch, row) == "name" \in DOMAIN patch
NameChanged(patch, row) == "name" \in DOMAIN patch /\ patch.name # row.name

update_product_group(id, patch) ==
    LET found == ScalarOneOrNone(ById(product_groups, id)) IN
    /\ req' = [op |-> "update", kind |-> "product_group", id |-> id, data |-> patch]
    /\ IF found.n = 0 THEN Fail(HTTPException(404, "Product group not found"))
       ELSE IF /\ NameChanged(patch, found.row)
               /\ ScalarOneOrNone(GroupsNamed(product_groups, patch.name)).n = 2
       THEN Fail(ServerError)
       ELSE IF /\ NameChanged(patch, found.row)
               /\ ScalarOneOrNone(GroupsNamed(product_groups, patch.name)).n = 1
       THEN Fail(HTTPException(400, AlreadyExists(patch.name)))
       ELSE LET set == ApplyPatch(found.row, patch) IN
            IF \/ ViolatesNotNull(set, NotNullProductGroup)
               \/ GroupsNamed(product_groups \ {found.row}, set.name) # {}
            THEN Fail(ServerError)
            ELSE /\ CanStamp
                 /\ LET row == Refreshed(set, now + 1) IN
                      /\ product_groups' = (product_groups \ {found.row}) \cup {row}
                      /\ resp' = [status |-> 200, body |-> row]
                 /\ now' = now + 1
                 /\ UNCHANGED <<products, architectures, variants, artifacts>>

delete_product_group(id) ==
    LET found == ScalarOneOrNone(ById(product_groups, id)) IN
    /\ req' = [op |-> "delete", kind |-> "product_group", id |-> id]
    /\ IF found.n = 0 THEN Fail(HTTPException(404, "Product group not found"))
       ELSE LET ps == GroupProducts(products, {id})
                as == ProductArchitectures(architectures, IdsOf(ps))
                vs == ArchitectureVariants(variants, IdsOf(as))
                fs == VariantArtifacts(artifacts, IdsOf(vs))
            IN /\ product_groups' = product_groups \ {found.row}
               /\ products' = products \ ps
               /\ architectures' = architectures \ as
               /\ variants' = variants \ vs
               /\ artifacts' = artifacts \ fs
               /\ resp' = [status |-> 200, message |-> "Product group deleted successfully"]
               /\ UNCHANGED now

(***************************************************************************)
(* /products                                                               *)
(***************************************************************************)
get_product(id) ==
    LET found == ScalarOneOrNone(ById(products, id)) IN
    /\ req' = [op |-> "get", kind |-> "product", id |-> id]
    /\ resp' = IF found.n = 0 THEN HTTPException(404, "Product not found")
               ELSE [status |-> 200, body |-> found.row]
    /\ UNCHANGED <<tables, now>>

create_product(product) ==
    /\ req' = [op |-> "create", kind |-> "product", data |-> product]
    /\ IF ParentMissing(product_groups, product.product_group_id)
       THEN Fail(HTTPException(400, "Product group not found"))
       ELSE /\ CanInsert(products)
            /\ LET row == Inserted(product, NextId(products), now + 1) IN
                 /\ products' = products \cup {row}
                 /\ resp' = [status |-> 201, body |-> row]
            /\ now' = now + 1
            /\ UNCHANGED <<product_groups, architectures, variants, artifacts>>

update_product(id, patch) ==
    LET found == ScalarOneOrNone(ById(products, id)) IN
    /\ req' = [op |-> "update", kind |-> "product", id |-> id, data |-> patch]
    /\ IF found.n = 0 THEN Fail(HTTPException(404, "Product not found"))
       ELSE IF /\ "product_group_id" \in DOMAIN patch
               /\ ParentMissing(product_groups, patch.product_group_id)
       THEN Fail(HTTPException(400, "Product group not found"))
       ELSE LET set == ApplyPatch(found.row, patch) IN
            IF ViolatesNotNull(set, NotNullProduct) THEN Fail(ServerError)
            ELSE /\ CanStamp
                 /\ LET row == Refreshed(set, now + 1) IN
                      /\ products' = (products \ {found.row}) \cup {row}
                      /\ resp' = [status |-> 200, body |-> row]
                 /\ now' = now + 1
                 /\ UNCHANGED <<product_groups, architectures, variants, artifacts>>

delete_product(id) ==
    LET found == ScalarOneOrNone(ById(products, id)) IN
    /\ req' = [op |-> "delete", kind |-> "product", id |-> id]
    /\ IF found.n = 0 THEN Fail(HTTPException(404, "Product not found"))
       ELSE LET as == ProductArchitectures(architectures, {id})
                vs == ArchitectureVariants(variants, IdsOf(as))
                fs == VariantArtifacts(artifacts, IdsOf(vs))
            IN /\ products' = products \ {found.row}
               /\ architectures' = architectures \ as
               /\ variants' = variants \ vs
               /\ artifacts' = artifacts \ fs
               /\ resp' = [status |-> 200, message |-> "Product deleted successfully"]
               /\ UNCHANGED <<product_groups, now>>

(***************************************************************************)
(* /architectures                                                          *)
(***************************************************************************)
get_architecture(id) ==
    LET found == ScalarOneOrNone(ById(architectures, id)) IN
    /\ req' = [op |-> "get", kind |-> "architecture", id |-> id]
    /\ resp' = IF found.n = 0 THEN HTTPException(404, "Architecture not found")
               ELSE [status |-> 200, body |-> found.row]
    /\ UNCHANGED <<tables, now>>

create_architecture(architecture) ==
    /\ req' = [op |-> "create", kind |-> "architecture", data |-> architecture]
    /\ IF ParentMissing(products, architecture.product_id)
       THEN Fail(HTTPException(400, "Product not found"))
       ELSE /\ CanInsert(architectures)
            /\ LET row == Inserted(architecture, NextId(architectures), now + 1) IN
                 /\ architectures' = architectures \cup {row}
                 /\ resp' = [status |-> 201, body |-> row]
            /\ now' = now + 1
            /\ UNCHANGED <<product_groups, products, variants, artifacts>>

update_architecture(id, patch) ==
    LET found == ScalarOneOrNone(ById(architectures, id)) IN
    /\ req' = [op |-> "update", kind |-> "architecture", id |-> id, data |-> patch]
    /\ IF found.n = 0 THEN Fail(HTTPException(404, "Architecture not found"))
       ELSE IF /\ "product_id" \in DOMAIN patch
               /\ ParentMissing(products, patch.product_id)
       THEN Fail(HTTPException(400, "Product not found"))
       ELSE LET set == ApplyPatch(found.row, patch) IN
            IF ViolatesNotNull(set, NotNullArchitecture) THEN Fail(ServerError)
            ELSE /\ CanStamp
                 /\ LET row == Refreshed(set, now + 1) IN
                      /\ architectures' = (architectures \ {found.row}) \cup {row}
                      /\ resp' = [status |-> 200, body |-> row]
                 /\ now' = now + 1
                 /\ UNCHANGED <<product_groups, products, variants, artifacts>>

delete_architecture(id) ==
    LET found == ScalarOneOrNone(ById(architectures, id)) IN
    /\ req' = [op |-> "delete", kind |-> "architecture", id |-> id]
    /\ IF found.n = 0 THEN Fail(HTTPException(404, "Architecture not found"))
       ELSE LET vs == ArchitectureVariants(variants, {id})
                fs == VariantArtifacts(artifacts, IdsOf(vs))
            IN /\ architectures' = architectures \ {found.row}
               /\ variants' = variants \ vs
               /\ artifacts' = artifacts \ fs
               /\ resp' = [status |-> 200, message |-> "Architecture deleted successfully"]
               /\ UNCHANGED <<product_groups, products, now>>

(***************************************************************************)
(* /variants                                                               *)
(***************************************************************************)
get_variant(id) ==
    LET found == ScalarOneOrNone(ById(variants, id)) IN
    /\ req' = [op |-> "get", kind |-> "variant", id |-> id]
    /\ resp' = IF found.n = 0 THEN HTTPException(404, "Variant not found")
               ELSE [status |-> 200, body |-> found.row]
    /\ UNCHANGED <<tables, now>>

create_variant(variant) ==
    /\ req' = [op |-> "create", kind |-> "variant", data |-> variant]
    /\ IF ParentMissing(architectures, variant.architecture_id)
       THEN Fail(HTTPException(400, "Architecture not found"))
       ELSE /\ CanInsert(variants)
            /\ LET row == Inserted(variant, NextId(variants), now + 1) IN
                 /\ variants' = variants \cup {row}
                 /\ resp' = [status |-> 201, body |-> row]
            /\ now' = now + 1
            /\ UNCHANGED <<product_groups, products, architectures, artifacts>>

update_variant(id, patch) ==
    LET found == ScalarOneOrNone(ById(variants, id)) IN
    /\ req' = [op |-> "update", kind |-> "variant", id |-> id, data |-> patch]
    /\ IF found.n = 0 THEN Fail(HTTPException(404, "Variant not found"))
       ELSE IF /\ "architecture_id" \in DOMAIN patch
               /\ ParentMissing(architectures, patch.architecture_id)
       THEN Fail(HTTPException(400, "Architecture not found"))
       ELSE LET set == ApplyPatch(found.row, patch) IN
            IF ViolatesNotNull(set, NotNullVariant) THEN Fail(ServerError)
            ELSE /\ CanStamp
                 /\ LET row == Refreshed(set, now + 1) IN
                      /\ variants' = (variants \ {found.row}) \cup {row}
                      /\ resp' = [status |-> 200, body |-> row]
                 /\ now' = now + 1
                 /\ UNCHANGED <<product_groups, products, architectures, artifacts>>

delete_variant(id) ==
    LET found == ScalarOneOrNone(ById(variants, id)) IN
    /\ req' = [op |-> "delete", kind |-> "variant", id |-> id]
    /\ IF found.n = 0 THEN Fail(HTTPException(404, "Variant not found"))
       ELSE LET fs == VariantArtifacts(artifacts, {id})
            IN /\ variants' = variants \ {found.row}
               /\ artifacts' = artifacts \ fs
               /\ resp' = [status |-> 200, message |-> "Variant deleted successfully"]
               /\ UNCHANGED <<product_groups, products, architectures, now>>

(***************************************************************************)
(* /artifacts                                                              *)
(***************************************************************************)
get_artifact(id) ==
    LET found == ScalarOneOrNone(ById(artifacts, id)) IN
    /\ req' = [op |-> "get", kind |-> "artifact", id |-> id]
    /\ resp' = IF found.n = 0 THEN HTTPException(404, "Artifact not found")
               ELSE [status |-> 200, body |-> found.row]
    /\ UNCHANGED <<tables, now>>

create_artifact(artifact) ==
    /\ req' = [op |-> "create", kind |-> "artifact", data |-> artifact]
    /\ IF ParentMissing(variants, artifact.variant_id)
       THEN Fail(HTTPException(400, "Variant not found"))
       ELSE /\ CanInsert(artifacts)
            /\ LET row == Inserted(artifact, NextId(artifacts), now + 1) IN
                 /\ artifacts' = artifacts \cup {row}
                 /\ resp' = [status |-> 201, body |-> row]
            /\ now' = now + 1
            /\ UNCHANGED <<product_groups, products, architectures, variants>>

update_artifact(id, patch) ==
    LET found == ScalarOneOrNone(ById(artifacts, id)) IN
    /\ req' = [op |-> "update", kind |-> "artifact", id |-> id, data |-> patch]
    /\ IF found.n = 0 THEN Fail(HTTPException(404, "Artifact not found"))
       ELSE IF /\ "variant_id" \in DOMAIN patch
               /\ ParentMissing(variants, patch.variant_id)
       THEN Fail(HTTPException(400, "Variant not found"))
       ELSE LET set == ApplyPatch(found.row, patch) IN
            IF ViolatesNotNull(set, NotNullArtifact) THEN Fail(ServerError)
            ELSE /\ CanStamp
                 /\ LET row == Refreshed(set, now + 1) IN
                      /\ artifacts' = (artifacts \ {found.row}) \cup {row}
                      /\ resp' = [status |-> 200, body |-> row]
                 /\ now' = now + 1
                 /\ UNCHANGED <<product_groups, products, architectures, variants>>

delete_artifact(id) ==
    LET found == ScalarOneOrNone(ById(artifacts, id)) IN
    /\ req' = [op |-> "delete", kind |-> "artifact", id |-> id]
    /\ IF found.n = 0 THEN Fail(HTTPException(404, "Artifact not found"))
       ELSE /\ artifacts' = artifacts \ {found.row}
            /\ resp' = [status |-> 200, message |-> "Artifact deleted successfully"]
            /\ UNCHANGED <<product_groups, products, architectures, variants, now>>

(***************************************************************************)
(* api/*.py: the list handlers and the artifact statistics.  They read the *)
(* store and write nothing.                                                *)
(***************************************************************************)
\* skip: int = Query(0, ge=0) and limit: int = Query(100, ge=1, le=1000)
Skips == {0, 1}
Limits == {1, 100}
\* an optional integer query parameter: absent, or any integer (0 included)
IdFilters == {NoInt} \cup {<<i>> : i \in 0..MaxId}
\* the optional query parameters of list_artifacts
ArtifactFilters ==
    {[variant_id |-> v, artifact_type |-> NULL, status |-> NULL, region |-> NULL]
        : v \in IdFilters}
    \cup {[variant_id |-> NoInt, artifact_type |-> t, status |-> s, region |-> r]
        : t \in {NULL, "cloud_image"}, s \in {NULL, "completed"},
          r \in {NULL, "us-east-1", ""}}

\* "if product_id:" and "if region:": Python truth of an optional int / str
TruthyInt(x) == x # NoInt /\ x[1] # 0
TruthyStr(s) == s # NULL /\ s # ""

\* query.where(T.column == value), added only when the parameter is truthy
WhereInt(rows, column, x) ==
    IF TruthyInt(x) THEN {r \in rows : r[column] = x[1]} ELSE rows
WhereStr(rows, column, s) ==
    IF TruthyStr(s) THEN {r \in rows : r[column] = s} ELSE rows

\* order_by(T.created_at.desc()): the orders the database may answer in (rows
\* stamped alike come in either order)
NewestFirst(rows) ==
    {s \in [1..Cardinality(rows) -> rows] :
        /\ \A i, j \in DOMAIN s : i # j => s[i] # s[j]
        /\ \A i, j \in DOMAIN s : i < j => s[i].created_at >= s[j].created_at}

\* .offset(skip).limit(limit)
Page(order, skip, limit) ==
    [i \in 1..(IF Len(order) - skip < limit
               THEN (IF Len(order) < skip THEN 0 ELSE Len(order) - skip)
               ELSE limit) |-> order[skip + i]]

\* result.scalars().all() of the built query
ListQuery(kind, rows, skip, limit, filters) ==
    /\ req' = [op |-> "list", kind |-> kind, skip |-> skip, limit |-> limit,
               filters |-> filters]
    /\ \E order \in NewestFirst(rows) :
         resp' = [status |-> 200, body |-> Page(order, skip, limit)]
    /\ UNCHANGED <<tables, now>>

list_product_groups(skip, limit) ==
    ListQuery("product_group", product_groups, skip, limit, NoFields)

list_products(skip, limit, product_group_id) ==
    ListQuery("product", WhereInt(products, "product_group_id", product_group_id),
           skip, limit, [product_group_id |-> product_group_id])

list_architectures(skip, limit, product_id) ==
    ListQuery("architecture", WhereInt(architectures, "product_id", product_id),
           skip, limit, [product_id |-> product_id])

list_variants(skip, limit, architecture_id) ==
    ListQuery("variant", WhereInt(variants, "architecture_id", architecture_id),
           skip, limit, [architecture_id |-> architecture_id])

list_artifacts(skip, limit, filters) ==
    ListQuery("artifact",
           WhereStr(WhereStr(WhereStr(WhereInt(artifacts,
               "variant_id", filters.variant_id),
               "artifact_type", filters.artifact_type),
               "status", filters.status),
               "region", filters.region),
           skip, limit, filters)

\* select(column, func.count()).group_by(column): one count per value
\* present; CountByOne is a grouping that counts every value once
CountByOne(rows, column) == [k \in {r[column] : r \in rows} |-> 1]
CountBy(rows, column) ==
    [k \in {r[column] : r \in rows} |-> Cardinality({r \in rows : r[column] = k})]

\* select(func.sum(Artifact.size_bytes)): NULL sizes are left out, and the
\* sum over no size at all is NULL
RECURSIVE SumSizes(_)
SumSizes(rows) ==
    IF rows = {} THEN 0
    ELSE LET r == CHOOSE r \in rows : TRUE
         IN r.size_bytes[1] + SumSizes(rows \ {r})
SqlSum(rows) ==
    LET sized == {r \in rows : r.size_bytes # NoInt}
    IN IF sized = {} THEN NoInt ELSE <<SumSizes(sized)>>

get_artifact_stats ==
    LET total_size_result == SqlSum(artifacts)
        \* total_size_result.scalar() or 0
        total_size == IF TruthyInt(total_size_result) THEN total_size_result[1] ELSE 0
    IN /\ req' = [op |-> "stats", kind |-> "artifact"]
       /\ resp' = [status |-> 200,
                   body |-> [by_type |-> CountBy(artifacts, "artifact_type"),
                             by_status |-> CountBy(artifacts, "status"),
                             total_size_bytes |-> total_size]]
       /\ UNCHANGED <<tables, now>>

(***************************************************************************)
(* scripts/bootstrap.py: the configuration document and the loader.        *)
(*                                                                         *)
(* A document is the parsed YAML: a mapping that may hold product_groups,  *)
(* an ordered mapping group name -> group data; group data is a mapping    *)
(* that may hold products, an ordered mapping product name -> entry.       *)
(* keys is the set of keys a mapping holds; is_dict tells a mapping from   *)
(* any other YAML value.                                                   *)
(***************************************************************************)
RepositoryGroups(items) == [is_dict |-> TRUE, items |-> items]
RepositoryList == [is_dict |-> FALSE, items |-> <<>>]
ProductEntry(name, keys, releasever, arches, repository_groups) ==
    [name |-> name, is_dict |-> TRUE, keys |-> keys, releasever |-> releasever,
     arches |-> arches, stages |-> "build", repository_groups |-> repository_groups]
ScalarEntry(name) ==
    [name |-> name, is_dict |-> FALSE, keys |-> {}, releasever |-> 0,
     arches |-> <<>>, stages |-> NULL, repository_groups |-> RepositoryList]
GroupEntry(name, keys, entries) ==
    [name |-> name, is_dict |-> TRUE, keys |-> keys, products |-> entries]
EmptyGroupEntry(name) ==
    [name |-> name, is_dict |-> FALSE, keys |-> {}, products |-> <<>>]
Config(groups) == [keys |-> {"product_groups"}, product_groups |-> groups]

BaseOS == RepositoryGroups(<< <<"baseos", "https://repo/baseos">> >>)

Configs == {
    [keys |-> {}, product_groups |-> <<>>],
    Config(<< GroupEntry("g1", {"products"}, <<
                ProductEntry("p1", {"releasever", "arches", "stages", "repository_groups"},
                             9, <<"x86_64", "aarch64">>, BaseOS) >>) >>),
    Config(<< GroupEntry("g1", {"products"}, <<
                ProductEntry("p2", {"just_like"}, 0, <<>>, BaseOS),
                ProductEntry("p1", {"releasever", "arches"}, 10, <<"x86_64">>, BaseOS) >>),
              GroupEntry("CIQ-Kernel", {"products"}, <<
                ProductEntry("p1", {"arches"}, 0, <<"x86_64">>, BaseOS) >>) >>),
    Config(<< GroupEntry("g2", {"products"}, <<
                ScalarEntry("p2"),
                ProductEntry("p1", {}, 0, <<>>, BaseOS) >>) >>),
    Config(<< GroupEntry("g1", {"products"}, <<
                ProductEntry("p1", {"arches", "repository_groups"}, 0, <<"x86_64">>,
                             RepositoryList),
                ProductEntry("p2", {"arches"}, 0, <<"aarch64">>, BaseOS) >>) >>),
    Config(<< GroupEntry("g1", {"products"}, <<
                ProductEntry("p1", {"arches"}, 0, <<>>, BaseOS) >>),
              GroupEntry("g2", {"description"}, <<>>),
              EmptyGroupEntry("Sig-Cloud-Next") >>),
    Config(<< GroupEntry("g2", {"products"}, <<
                ProductEntry("p1", {"releasever"}, 9, <<>>, BaseOS) >>),
              EmptyGroupEntry("g3") >>)
}

\* the blacklist argument of ConfigBootstrapper: None, [] or a list of names
NoBlacklist == [is_none |-> TRUE, items |-> <<>>]
BlacklistArgs == {NoBlacklist,
                  [is_none |-> FALSE, items |-> <<>>],
                  [is_none |-> FALSE, items |-> <<"G1">>]}

\* the runs tried: every document under the default blacklist, and the
\* documents that name a blacklisted group under the other arguments
Runs ==
    {[config |-> c, blacklist |-> NoBlacklist] : c \in Configs}
    \cup {[config |-> c, blacklist |-> b] :
             c \in {d \in Configs : \E i \in DOMAIN d.product_groups :
                                       d.product_groups[i].name = "CIQ-Kernel"},
             b \in BlacklistArgs}

\* str.lower() on the names in use; LowerSame is a comparison that keeps case
LowerSame(s) == s
Lower(s) ==
    CASE s = "CIQ-Kernel" -> "ciq-kernel"
      [] s = "Sig-Cloud-Next" -> "sig-cloud-next"
      [] s = "G1" -> "g1"
      [] OTHER -> s

\* str() of a releasever value
Str(n) == CASE n = 9 -> "9" [] n = 10 -> "10" [] OTHER -> "0"

\* arch.replace("_", " ").title()
DisplayName(arch) ==
    CASE arch = "x86_64" -> "X86 64"
      [] arch = "aarch64" -> "Aarch64"
      [] OTHER -> arch

Range(seq) == {seq[i] : i \in DOMAIN seq}

DefaultBlacklist == <<"CIQ-Kernel", "sig-cloud-next">>

\* self.blacklist = [item.lower() for item in blacklist or [...]];
\* BlacklistAsGiven is a constructor that falls back to the default for
\* None only
BlacklistAsGiven(arg) ==
    LET given == IF arg.is_none THEN DefaultBlacklist ELSE arg.items
    IN {Lower(item) : item \in Range(given)}
Blacklist(arg) ==
    LET given == IF arg.is_none \/ arg.items = <<>> THEN DefaultBlacklist ELSE arg.items
    IN {Lower(item) : item \in Range(given)}

NoStats == [product_groups_created |-> 0, products_created |-> 0,
            variants_created |-> 0, skipped |-> 0, errors |-> 0]

\* self.stats[k] += 1; CountNone is a run that keeps no count
CountNone(S, k) == S
Count(S, k) == [S EXCEPT !.stats[k] = @ + 1]

\* except Exception as e: ...; self.stats["errors"] += 1, and the loop goes
\* on; CaughtEscapes is a handler that lets the exception out of the run
CaughtEscapes(S) == [Count(S, "errors") EXCEPT !.aborted = TRUE]
Caught(S) == Count(S, "errors")

\* select(Product).where(Product.name == name, Product.product_group_id == pg.id);
\* ProductsNamedAnywhere is a lookup by name alone
ProductsNamedAnywhere(rows, name, gid) == {p \in rows : p.name = name}
ProductsNamedIn(rows, name, gid) ==
    {p \in rows : p.name = name /\ p.product_group_id = gid}

\* select(Architecture).where(Architecture.product_id == product.id,
\*                            Architecture.name == arch)
ArchitecturesNamedIn(rows, pid, name) ==
    {a \in rows : a.product_id = pid /\ a.name = name}

\* select(Variant).where(Variant.architecture_id == architecture.id);
\* VariantsOfNone is a lookup that finds no variant
VariantsOfNone(rows, aid) == {}
VariantsOf(rows, aid) == {v \in rows : v.architecture_id = aid}

\* S is the session of the run: the tables as the run sees them, the
\* counters, and whether an exception has escaped the item handlers.
bootstrap_create_product_group(S, name, t) ==
    LET existing == ScalarOneOrNone(GroupsNamed(S.product_groups, name)) IN
    IF existing.n = 2 THEN [S |-> Caught(S), ok |-> FALSE]
    ELSE IF existing.n = 1
    THEN [S |-> Count(S, "skipped"), ok |-> TRUE, row |-> existing.row]
    ELSE LET pg == Inserted([name |-> name,
                             description |-> "Product group for " \o name \o " products"],
                            NextId(S.product_groups), t)
         IN [S |-> Count([S EXCEPT !.product_groups = @ \cup {pg}],
                         "product_groups_created"),
             ok |-> TRUE, row |-> pg]

\* if existing: self.stats["skipped"] += 1; return existing: the product found
\* is handed back as it is; ReusedProductUpdated is a find that brings the
\* version of the row up to the document
ReusedProductUpdated(S, row, version, t) ==
    LET updated == Refreshed([row EXCEPT !.version = version], t)
    IN [S |-> Count([S EXCEPT !.products = (@ \ {row}) \cup {updated}], "skipped"),
        ok |-> TRUE, row |-> updated]
ReusedProduct(S, row, version, t) ==
    [S |-> Count(S, "skipped"), ok |-> TRUE, row |-> row]

bootstrap_create_product(S, name, product_group, version, description, t) ==
    LET existing == ScalarOneOrNone(ProductsNamedIn(S.products, name, product_group.id)) IN
    IF existing.n = 2 THEN [S |-> Caught(S), ok |-> FALSE]
    ELSE IF existing.n = 1 THEN ReusedProduct(S, existing.row, version, t)
    ELSE LET product == Inserted([name |-> name, version |-> version,
                                  description |-> description,
                                  product_group_id |-> product_group.id],
                                 NextId(S.products), t)
         IN [S |-> Count([S EXCEPT !.products = @ \cup {product}], "products_created"),
             ok |-> TRUE, row |-> product]

\* list(product_data["repository_groups"].keys())
Keys(items) == [i \in DOMAIN items |-> items[i][1]]

\* build_config = {...}; build_config if build_config else None
BuildConfig(product_data) ==
    LET keys == product_data.keys \cap {"releasever", "stages", "repository_groups"} IN
    IF keys = {} THEN NullDoc
    ELSE [null |-> FALSE, keys |-> keys,
          releasever |-> IF "releasever" \in keys THEN product_data.releasever ELSE 0,
          stages |-> IF "stages" \in keys THEN product_data.stages ELSE NULL,
          repository_groups |-> IF "repository_groups" \in keys
                                THEN Keys(product_data.repository_groups.items)
                                ELSE <<>>]

\* the body of the loop of create_variants, for one arch
create_variant_for_arch(S, product, arch, product_data, t) ==
    LET found == ScalarOneOrNone(ArchitecturesNamedIn(S.architectures, product.id, arch)) IN
    IF found.n = 2 THEN Caught(S)
    ELSE
    LET architecture ==
            IF found.n = 1 THEN found.row
            ELSE Inserted([name |-> arch, display_name |-> DisplayName(arch),
                           description |-> arch \o " architecture for " \o product.name,
                           product_id |-> product.id],
                          NextId(S.architectures), t)
        S1 == [S EXCEPT !.architectures = @ \cup {architecture}]
        existing_variant == ScalarOneOrNone(VariantsOf(S1.variants, architecture.id))
    IN  IF existing_variant.n = 2 THEN Caught(S1)
        ELSE IF existing_variant.n = 1 THEN Count(S1, "skipped")
        ELSE IF /\ "repository_groups" \in product_data.keys
                /\ ~product_data.repository_groups.is_dict
        THEN Caught(S1)
        ELSE LET variant ==
                     Inserted([name |-> product.name \o "-" \o arch,
                               description |-> product.name \o " for " \o arch
                                               \o " architecture",
                               build_config |-> BuildConfig(product_data),
                               architecture_id |-> architecture.id],
                              NextId(S1.variants), t)
             IN Count([S1 EXCEPT !.variants = @ \cup {variant}], "variants_created")

\* for arch in arches: ...; create_variants_first is a loop that stops
\* after the first arch
create_variants_first(S, product, arches, product_data, t) ==
    IF arches = <<>> THEN S
    ELSE create_variant_for_arch(S, product, Head(arches), product_data, t)
RECURSIVE create_variants(_, _, _, _, _)
create_variants(S, product, arches, product_data, t) ==
    IF arches = <<>> THEN S
    ELSE create_variants(create_variant_for_arch(S, product, Head(arches), product_data, t),
                         product, Tail(arches), product_data, t)

\* isinstance(product_data, dict) and "just_like" in product_data;
\* JustLikeNever is a loop without the test
JustLikeNever(product_data) == FALSE
JustLike(product_data) == product_data.is_dict /\ "just_like" \in product_data.keys

\* the body of the loop over group_data["products"].items(), for one entry
process_product(S, pg, product_data, t) ==
    IF JustLike(product_data) THEN S
    ELSE IF ~product_data.is_dict THEN S
    ELSE
    LET version == IF "releasever" \in product_data.keys
                   THEN Str(product_data.releasever) ELSE "1.0"
        created == bootstrap_create_product(
                       S, product_data.name, pg, version,
                       "Product " \o product_data.name \o " version " \o version, t)
        arches == IF "arches" \in product_data.keys
                  THEN product_data.arches ELSE <<"x86_64">>
    IN  IF ~created.ok THEN created.S
        ELSE IF arches # <<>>
        THEN create_variants(created.S, created.row, arches, product_data, t)
        ELSE created.S

RECURSIVE process_products(_, _, _, _)
process_products(S, pg, entries, t) ==
    IF entries = <<>> THEN S
    ELSE process_products(process_product(S, pg, Head(entries), t), pg, Tail(entries), t)

\* the body of the loop over product_groups_data.items(), for one group;
\* "products" not in group_data raises TypeError when group_data is no mapping
process_product_group(S, group_data, blacklist, t) ==
    IF Lower(group_data.name) \in blacklist THEN S
    ELSE LET created == bootstrap_create_product_group(S, group_data.name, t) IN
         IF ~created.ok THEN created.S
         ELSE IF ~group_data.is_dict THEN [created.S EXCEPT !.aborted = TRUE]
         ELSE IF "products" \notin group_data.keys THEN created.S
         ELSE process_products(created.S, created.row, group_data.products, t)

RECURSIVE process_groups(_, _, _, _)
process_groups(S, groups, blacklist, t) ==
    IF groups = <<>> \/ S.aborted THEN S
    ELSE process_groups(process_product_group(S, Head(groups), blacklist, t),
                        Tail(groups), blacklist, t)

process_product_groups(S, config, blacklist, t) ==
    IF "product_groups" \notin config.keys THEN S
    ELSE process_groups(S, config.product_groups, blacklist, t)

\* async with AsyncSessionLocal() as session: the session starts from the
\* committed tables
Session ==
    [product_groups |-> product_groups, products |-> products,
     architectures |-> architectures, variants |-> variants,
     stats |-> NoStats, aborted |-> FALSE]

\* the ids the run commits stay within the bound of the model
WithinIds(S) ==
    \A r \in S.product_groups \cup S.products \cup S.architectures \cup S.variants :
        r.id <= MaxId

\* await session.commit(), or await session.rollback() when an exception
\* escaped: the tables the run leaves behind; CommittedDespiteAbort is a
\* run that commits what it has flushed when the exception escapes
CommittedDespiteAbort(S) ==
    [product_groups |-> S.product_groups, products |-> S.products,
     architectures |-> S.architectures, variants |-> S.variants]
Committed(S) ==
    IF S.aborted
    THEN [product_groups |-> product_groups, products |-> products,
          architectures |-> architectures, variants |-> variants]
    ELSE [product_groups |-> S.product_groups, products |-> S.products,
          architectures |-> S.architectures, variants |-> S.variants]

\* one whole run: process, then commit; an escaped exception rolls back
\* and main() exits 1
bootstrap(config, blacklist_arg) ==
    LET S == process_product_groups(Session, config, Blacklist(blacklist_arg), now + 1)
        after == Committed(S)
        wrote == <<after.product_groups, after.products, after.architectures,
                   after.variants>>
                 # <<product_groups, products, architectures, variants>>
    IN /\ req' = [op |-> "bootstrap", config |-> config, blacklist |-> blacklist_arg]
       /\ WithinIds(after)
       /\ wrote => CanStamp
       /\ product_groups' = after.product_groups
       /\ products' = after.products
       /\ architectures' = after.architectures
       /\ variants' = after.variants
       /\ now' = IF wrote THEN now + 1 ELSE now
       /\ resp' = IF S.aborted THEN [status |-> 1] ELSE [status |-> 0, stats |-> S.stats]
       /\ UNCHANGED artifacts

Next ==
    \/ \E id \in Ids : get_product_group(id)
    \/ \E pg \in ProductGroupCreate : create_product_group(pg)
    \/ \E id \in Ids, patch \in ProductGroupUpdate : update_product_group(id, patch)
    \/ \E id \in Ids : delete_product_group(id)
    \/ \E id \in Ids : get_product(id)
    \/ \E product \in ProductCreate : create_product(product)
    \/ \E id \in Ids, patch \in ProductUpdate : update_product(id, patch)
    \/ \E id \in Ids : delete_product(id)
    \/ \E id \in Ids : get_architecture(id)
    \/ \E architecture \in ArchitectureCreate : create_architecture(architecture)
    \/ \E id \in Ids, patch \in ArchitectureUpdate : update_architecture(id, patch)
    \/ \E id \in Ids : delete_architecture(id)
    \/ \E id \in Ids : get_variant(id)
    \/ \E variant \in VariantCreate : create_variant(variant)
    \/ \E id \in Ids, patch \in VariantUpdate : update_variant(id, patch)
    \/ \E id \in Ids : delete_variant(id)
    \/ \E id \in Ids : get_artifact(id)
    \/ \E artifact \in ArtifactCreate : create_artifact(artifact)
    \/ \E id \in Ids, patch \in ArtifactUpdate : update_artifact(id, patch)
    \/ \E id \in Ids : delete_artifact(id)
    \/ \E run \in Runs : bootstrap(run.config, run.blacklist)

\* requests and bootstrap runs, one at a time, in any order
Spec == Init /\ [][Next]_vars

\* the REST handlers alone
NextApi ==
    \/ \E id \in Ids : get_product_group(id)
    \/ \E pg \in ProductGroupCreate : create_product_group(pg)
    \/ \E id \in Ids, patch \in ProductGroupUpdate : update_product_group(id, patch)
    \/ \E id \in Ids : delete_product_group(id)
    \/ \E id \in Ids : get_product(id)
    \/ \E product \in ProductCreate : create_product(product)
    \/ \E id \in Ids, patch \in ProductUpdate : update_product(id, patch)
    \/ \E id \in Ids : delete_product(id)
    \/ \E id \in Ids : get_architecture(id)
    \/ \E architecture \in ArchitectureCreate : create_architecture(architecture)
    \/ \E id \in Ids, patch \in ArchitectureUpdate : update_architecture(id, patch)
    \/ \E id \in Ids : delete_architecture(id)
    \/ \E id \in Ids : get_variant(id)
    \/ \E variant \in VariantCreate : create_variant(variant)
    \/ \E id \in Ids, patch \in VariantUpdate : update_variant(id, patch)
    \/ \E id \in Ids : delete_variant(id)
    \/ \E id \in Ids : get_artifact(id)
    \/ \E artifact \in ArtifactCreate : create_artifact(artifact)
    \/ \E id \in Ids, patch \in ArtifactUpdate : update_artifact(id, patch)
    \/ \E id \in Ids : delete_artifact(id)

SpecApi == Init /\ [][NextApi]_vars

\* bootstrap runs against stores that creates and deletes have shaped
NextBootstrap ==
    \/ \E pg \in ProductGroupCreate : create_product_group(pg)
    \/ \E product \in ProductCreate : create_product(product)
    \/ \E architecture \in ArchitectureCreate : create_architecture(architecture)
    \/ \E variant \in VariantCreate : create_variant(variant)
    \/ \E artifact \in ArtifactCreate : create_artifact(artifact)
    \/ \E id \in Ids : delete_product_group(id)
    \/ \E id \in Ids : delete_product(id)
    \/ \E id \in Ids : delete_architecture(id)
    \/ \E id \in Ids : delete_variant(id)
    \/ \E id \in Ids : delete_artifact(id)
    \/ \E run \in Runs : bootstrap(run.config, run.blacklist)

SpecBootstrap == Init /\ [][NextBootstrap]_vars

\* list and statistics requests against stores that creates, and updates
\* and deletes of artifacts, have shaped
NextQuery ==
    \/ \E pg \in ProductGroupCreate : create_product_group(pg)
    \/ \E product \in ProductCreate : create_product(product)
    \/ \E architecture \in ArchitectureCreate : create_architecture(architecture)
    \/ \E variant \in VariantCreate : create_variant(variant)
    \/ \E artifact \in ArtifactCreate : create_artifact(artifact)
    \/ \E id \in Ids, patch \in ArtifactUpdate : update_artifact(id, patch)
    \/ \E id \in Ids : delete_artifact(id)
    \/ \E skip \in Skips, limit \in Limits : list_product_groups(skip, limit)
    \/ \E skip \in Skips, limit \in Limits, product_group_id \in IdFilters :
         list_products(skip, limit, product_group_id)
    \/ \E skip \in Skips, limit \in Limits, product_id \in IdFilters :
         list_architectures(skip, limit, product_id)
    \/ \E skip \in Skips, limit \in Limits, architecture_id \in IdFilters :
         list_variants(skip, limit, architecture_id)
    \/ \E skip \in Skips, limit \in Limits, filters \in ArtifactFilters :
         list_artifacts(skip, limit, filters)
    \/ get_artifact_stats

SpecQuery == Init /\ [][NextQuery]_vars

(***************************************************************************)
(* Requests in flight together.  Each handler awaits between its           *)
(* statements, so the handlers of two clients interleave statement by      *)
(* statement: the lookup of a handler reads the committed tables as they   *)
(* are when it runs, and its commit writes into the committed tables as    *)
(* they are then.  In these specifications req holds, per client, the      *)
(* request in flight with the position it has reached and what it has      *)
(* read, and resp the answer each client has been given; the clock moves   *)
(* on its own and a row is stamped with the time of its insert.            *)
(***************************************************************************)
Clients == {1, 2}
Idle == [op |-> "none", pc |-> "idle"]
NoAnswer == [status |-> 0]

\* the client's request moves to the position given / is answered
Goto(c, r) == req' = [req EXCEPT ![c] = r] /\ UNCHANGED resp
Answer(c, r, a) == req' = [req EXCEPT ![c] = r] /\ resp' = [resp EXCEPT ![c] = a]

\* the clock of the database server
Tick == now < MaxClock /\ now' = now + 1 /\ UNCHANGED <<tables, req, resp>>

\* whether the database enforces the declared foreign keys: SQLite, the
\* default database_url, does not unless told to with a PRAGMA the engine
\* never issues; PostgreSQL does
ForeignKeys == BOOLEAN

\* create_product_group up to the first await after the name lookup
create_product_group_check(c, pg) ==
    LET r == [op |-> "create", kind |-> "product_group", data |-> pg, pc |-> "done"]
        existing == ScalarOneOrNone(GroupsNamed(product_groups, pg.name))
    IN /\ req[c].pc = "idle"
       /\ IF existing.n = 2 THEN Answer(c, r, ServerError)
          ELSE IF existing.n = 1
          THEN Answer(c, r, HTTPException(400, AlreadyExists(pg.name)))
          ELSE Goto(c, [r EXCEPT !.pc = "commit"])
       /\ UNCHANGED <<tables, now>>

\* db.add(...); await db.commit(): the INSERT meets the unique index on
\* product_groups.name, and an IntegrityError leaves the handler as a 500
create_product_group_commit(c) ==
    LET r == [req[c] EXCEPT !.pc = "done"] IN
    /\ req[c].pc = "commit" /\ req[c].op = "create" /\ req[c].kind = "product_group"
    /\ IF GroupsNamed(product_groups, r.data.name) # {}
       THEN Answer(c, r, ServerError) /\ UNCHANGED <<tables, now>>
       ELSE /\ NextId(product_groups) <= MaxId
            /\ LET row == Inserted(r.data, NextId(product_groups), now) IN
                 /\ product_groups' = product_groups \cup {row}
                 /\ Answer(c, r, [status |-> 201, body |-> row])
            /\ UNCHANGED <<products, architectures, variants, artifacts, now>>

\* create_product up to the first await after the parent lookup
create_product_check(c, product) ==
    LET r == [op |-> "create", kind |-> "product", data |-> product, pc |-> "done"] IN
    /\ req[c].pc = "idle"
    /\ IF ParentMissing(product_groups, product.product_group_id)
       THEN Answer(c, r, HTTPException(400, "Product group not found"))
       ELSE Goto(c, [r EXCEPT !.pc = "commit"])
    /\ UNCHANGED <<tables, now>>

\* db.add(...); await db.commit(): when the group has gone meanwhile the
\* INSERT fails under enforced foreign keys and goes through otherwise
create_product_commit(c, foreign_keys) ==
    LET r == [req[c] EXCEPT !.pc = "done"] IN
    /\ req[c].pc = "commit" /\ req[c].op = "create" /\ req[c].kind = "product"
    /\ IF foreign_keys /\ ById(product_groups, r.data.product_group_id) = {}
       THEN Answer(c, r, ServerError) /\ UNCHANGED <<tables, now>>
       ELSE /\ NextId(products) <= MaxId
            /\ LET row == Inserted(r.data, NextId(products), now) IN
                 /\ products' = products \cup {row}
                 /\ Answer(c, r, [status |-> 201, body |-> row])
            /\ UNCHANGED <<product_groups, architectures, variants, artifacts, now>>

\* delete_product_group up to the first await after the lookup by id
delete_product_group_find(c, id) ==
    LET r == [op |-> "delete", kind |-> "product_group", id |-> id, pc |-> "done"]
        found == ScalarOneOrNone(ById(product_groups, id))
    IN /\ req[c].pc = "idle"
       /\ IF found.n = 0
          THEN Answer(c, r, HTTPException(404, "Product group not found"))
          ELSE Goto(c, [r EXCEPT !.pc = "delete"])
       /\ UNCHANGED <<tables, now>>

\* await db.delete(db_product_group): the session loads the collections the
\* cascade follows and marks the rows it finds for deletion
delete_product_group_cascade(c) ==
    LET ps == GroupProducts(products, {req[c].id})
        as == ProductArchitectures(architectures, IdsOf(ps))
        vs == ArchitectureVariants(variants, IdsOf(as))
        fs == VariantArtifacts(artifacts, IdsOf(vs))
    IN /\ req[c].pc = "delete"
       /\ Goto(c, [op |-> "delete", kind |-> "product_group", id |-> req[c].id,
                   pc |-> "commit",
                   marked |-> [products |-> ps, architectures |-> as,
                               variants |-> vs, artifacts |-> fs]])
       /\ UNCHANGED <<tables, now>>

\* await db.commit(): the DELETEs of the marked rows and of the group; a
\* group row that has gone meanwhile fails the flush; under enforced
\* foreign keys ON DELETE CASCADE takes the rows the session had not loaded
delete_product_group_commit(c, foreign_keys) ==
    LET r == [op |-> "delete", kind |-> "product_group", id |-> req[c].id, pc |-> "done"]
        ps == IF foreign_keys THEN GroupProducts(products, {r.id})
              ELSE req[c].marked.products
        as == IF foreign_keys THEN ProductArchitectures(architectures, IdsOf(ps))
              ELSE req[c].marked.architectures
        vs == IF foreign_keys THEN ArchitectureVariants(variants, IdsOf(as))
              ELSE req[c].marked.variants
        fs == IF foreign_keys THEN VariantArtifacts(artifacts, IdsOf(vs))
              ELSE req[c].marked.artifacts
    IN /\ req[c].pc = "commit" /\ req[c].op = "delete"
       /\ IF ById(product_groups, r.id) = {}
          THEN Answer(c, r, ServerError) /\ UNCHANGED <<tables, now>>
          ELSE /\ product_groups' = product_groups \ ById(product_groups, r.id)
               /\ products' = products \ ps
               /\ architectures' = architectures \ as
               /\ variants' = variants \ vs
               /\ artifacts' = artifacts \ fs
               /\ Answer(c, r, [status |-> 200,
                                message |-> "Product group deleted successfully"])
               /\ UNCHANGED now

InitRequests ==
    /\ \/ /\ product_groups = {}
          /\ products = {}
          /\ architectures = {}
          /\ variants = {}
          /\ artifacts = {}
       \/ /\ product_groups = {sample_product_group}
          /\ products = {sample_product}
          /\ architectures = {sample_architecture}
          /\ variants = {sample_variant}
          /\ artifacts = {sample_artifact}
    /\ now = 0
    /\ req = [c \in Clients |-> Idle]
    /\ resp = [c \in Clients |-> NoAnswer]

NextRequests ==
    \/ Tick
    \/ \E c \in Clients, pg \in ProductGroupCreate : create_product_group_check(c, pg)
    \/ \E c \in Clients : create_product_group_commit(c)
    \/ \E c \in Clients, product \in ProductCreate : create_product_check(c, product)
    \/ \E c \in Clients, foreign_keys \in ForeignKeys :
         create_product_commit(c, foreign_keys)
    \/ \E c \in Clients, id \in Ids : delete_product_group_find(c, id)
    \/ \E c \in Clients : delete_product_group_cascade(c)
    \/ \E c \in Clients, foreign_keys \in ForeignKeys :
         delete_product_group_commit(c, foreign_keys)

\* two clients, one request each, interleaved statement by statement
SpecRequests == InitRequests /\ [][NextRequests]_vars

(***************************************************************************)
(* Bootstrap runs in flight together.  A run reads and flushes inside its  *)
(* own transaction and nothing it flushes is visible to another run before *)
(* its commit; the schedule followed here is the one in which a run makes  *)
(* all its lookups at one time and commits later.                          *)
(***************************************************************************)
\* the tables a run saw when it made its lookups
Snapshot(S) ==
    [product_groups |-> S.product_groups, products |-> S.products,
     architectures |-> S.architectures, variants |-> S.variants]

\* the ids the database hands the rows of a run: those the run counted from
\* its own view of a table, moved past the rows committed since
Shift(table, seen) == NextId(table) - NextId(seen)
Moved(id, seen, shift) == IF id >= NextId(seen) THEN id + shift ELSE id

\* the rows the run has flushed, as they reach the committed tables
Flushed(S, start) ==
    LET gs == Shift(product_groups, start.product_groups)
        ps == Shift(products, start.products)
        as == Shift(architectures, start.architectures)
        vs == Shift(variants, start.variants)
    IN [product_groups |->
            {[g EXCEPT !.id = @ + gs] : g \in S.product_groups \ start.product_groups},
        products |->
            {[p EXCEPT !.id = @ + ps,
                       !.product_group_id = Moved(@, start.product_groups, gs)]
                : p \in S.products \ start.products},
        architectures |->
            {[a EXCEPT !.id = @ + as, !.product_id = Moved(@, start.products, ps)]
                : a \in S.architectures \ start.architectures},
        variants |->
            {[v EXCEPT !.id = @ + vs,
                       !.architecture_id = Moved(@, start.architectures, as)]
                : v \in S.variants \ start.variants}]

\* the commit adds the rows of the transaction to the table as it stands;
\* WriteBackSnapshot is a commit that writes back the table the run saw
WriteBackSnapshot(table, seen, rows) == seen \cup rows
WriteBack(table, seen, rows) == table \cup rows

\* async with AsyncSessionLocal() as session: process_product_groups(session)
\* up to the await of the commit
bootstrap_process(c, config, blacklist_arg) ==
    LET S == process_product_groups(Session, config, Blacklist(blacklist_arg), now)
    IN /\ req[c].pc = "idle"
       /\ Goto(c, [op |-> "bootstrap", config |-> config, blacklist |-> blacklist_arg,
                   pc |-> "commit", start |-> Snapshot(Session), session |-> S])
       /\ UNCHANGED <<tables, now>>

\* await session.commit(), or the rollback and exit 1 when an exception
\* escaped; a group name taken since the lookup fails the flush on the
\* unique index, which ends the run the same way
bootstrap_commit(c) ==
    LET S == req[c].session
        start == req[c].start
        rows == Flushed(S, start)
        r == [req[c] EXCEPT !.pc = "done"]
    IN /\ req[c].pc = "commit" /\ req[c].op = "bootstrap"
       /\ IF \/ S.aborted
             \/ \E g \in rows.product_groups : GroupsNamed(product_groups, g.name) # {}
          THEN Answer(c, r, [status |-> 1]) /\ UNCHANGED <<tables, now>>
          ELSE /\ WithinIds(rows)
               /\ product_groups'
                     = WriteBack(product_groups, start.product_groups, rows.product_groups)
               /\ products' = WriteBack(products, start.products, rows.products)
               /\ architectures'
                     = WriteBack(architectures, start.architectures, rows.architectures)
               /\ variants' = WriteBack(variants, start.variants, rows.variants)
               /\ Answer(c, r, [status |-> 0, stats |-> S.stats])
               /\ UNCHANGED <<artifacts, now>>

\* the stores the runs start from: empty, a product group alone, or the
\* fixture chain
InitRuns ==
    /\ \/ /\ product_groups = {}
          /\ products = {}
          /\ architectures = {}
          /\ variants = {}
          /\ artifacts = {}
       \/ /\ product_groups = {sample_product_group}
          /\ products = {}
          /\ architectures = {}
          /\ variants = {}
          /\ artifacts = {}
       \/ /\ product_groups = {sample_product_group}
          /\ products = {sample_product}
          /\ architectures = {sample_architecture}
          /\ variants = {sample_variant}
          /\ artifacts = {sample_artifact}
    /\ now = 0
    /\ req = [c \in Clients |-> Idle]
    /\ resp = [c \in Clients |-> NoAnswer]

NextRuns ==
    \/ Tick
    \/ \E c \in Clients, run \in Runs : bootstrap_process(c, run.config, run.blacklist)
    \/ \E c \in Clients : bootstrap_commit(c)

\* two bootstrap runs, each against the store the other writes to
SpecRuns == InitRuns /\ [][NextRuns]_vars

(***************************************************************************)
(* Properties.                                                             *)
(***************************************************************************)
ParentKinds == {"product_group", "product", "architecture", "variant"}
ChildKinds == {"product", "architecture", "variant", "artifact"}

\* the table of a kind, among the five given
Pick(kind, g, p, a, v, f) ==
    CASE kind = "product_group" -> g
      [] kind = "product" -> p
      [] kind = "architecture" -> a
      [] kind = "variant" -> v
      [] kind = "artifact" -> f

\* the parent table of a kind and the field that holds the parent id
ParentTable(kind) ==
    CASE kind = "product" -> product_groups
      [] kind = "architecture" -> products
      [] kind = "variant" -> architectures
      [] kind = "artifact" -> variants
ParentField(kind) ==
    CASE kind = "product" -> "product_group_id"
      [] kind = "architecture" -> "product_id"
      [] kind = "variant" -> "architecture_id"
      [] kind = "artifact" -> "variant_id"

HasId(table, id) == \E r \in table : r.id = id
RowOf(table, id) == CHOOSE r \in table : r.id = id

\* the rows of the subtree rooted at the row (kind, id), table by table
SubGroups(kind, id) ==
    IF kind = "product_group" THEN {g \in product_groups : g.id = id} ELSE {}
SubProducts(kind, id) ==
    IF kind = "product" THEN {p \in products : p.id = id}
    ELSE {p \in products : \E g \in SubGroups(kind, id) : p.product_group_id = g.id}
SubArchitectures(kind, id) ==
    IF kind = "architecture" THEN {a \in architectures : a.id = id}
    ELSE {a \in architectures : \E p \in SubProducts(kind, id) : a.product_id = p.id}
SubVariants(kind, id) ==
    IF kind = "variant" THEN {v \in variants : v.id = id}
    ELSE {v \in variants : \E a \in SubArchitectures(kind, id) : v.architecture_id = a.id}
SubArtifacts(kind, id) ==
    IF kind = "artifact" THEN {f \in artifacts : f.id = id}
    ELSE {f \in artifacts : \E v \in SubVariants(kind, id) : f.variant_id = v.id}

\* C1: after a successful delete of a product group, product, architecture
\* or variant, exactly the rows of its subtree are gone from the five tables
\* (so every row outside the subtree is unchanged), and a lookup of any
\* deleted id finds no row, which is when get answers 404.
C1_DeleteCascades ==
    [][ (/\ req'.op = "delete"
         /\ req'.kind \in ParentKinds
         /\ resp'.status = 200)
        => LET k == req'.kind
               i == req'.id
           IN /\ product_groups' = product_groups \ SubGroups(k, i)
              /\ products' = products \ SubProducts(k, i)
              /\ architectures' = architectures \ SubArchitectures(k, i)
              /\ variants' = variants \ SubVariants(k, i)
              /\ artifacts' = artifacts \ SubArtifacts(k, i)
              /\ \A r \in SubGroups(k, i) : ~HasId(product_groups', r.id)
              /\ \A r \in SubProducts(k, i) : ~HasId(products', r.id)
              /\ \A r \in SubArchitectures(k, i) : ~HasId(architectures', r.id)
              /\ \A r \in SubVariants(k, i) : ~HasId(variants', r.id)
              /\ \A r \in SubArtifacts(k, i) : ~HasId(artifacts', r.id)
      ]_vars

\* the fixture product, with its architecture, variant and artifact, has been
\* deleted from a store that still holds its group and another product
C1_Witness ==
    /\ req.op = "delete" /\ req.kind = "product" /\ req.id = sample_product.id
    /\ resp.status = 200
    /\ sample_product_group \in product_groups
    /\ products # {} /\ sample_product \notin products
    /\ architectures = {} /\ variants = {} /\ artifacts = {}

\* C2: in every reachable state every product, architecture, variant and
\* artifact row names a parent row that exists.
C2_NoOrphans ==
    /\ \A p \in products : \E g \in product_groups : g.id = p.product_group_id
    /\ \A a \in architectures : \E p \in products : p.id = a.product_id
    /\ \A v \in variants : \E a \in architectures : a.id = v.architecture_id
    /\ \A f \in artifacts : \E v \in variants : v.id = f.variant_id

\* an import run has added a variant to a store that holds the
\* fixture chain down to its artifact
C2_Witness ==
    /\ req.op = "bootstrap" /\ resp.status = 0
    /\ resp.stats.variants_created > 0
    /\ sample_artifact \in artifacts
    /\ Cardinality(variants) = 2

\* C3: in every reachable state no two product group rows have the same name.
C3_UniqueGroupNames ==
    \A g1 \in product_groups, g2 \in product_groups :
        g1.name = g2.name => g1 = g2

\* a second group exists and a create that names the first has been refused
C3_Witness ==
    /\ req.op = "create" /\ req.kind = "product_group"
    /\ resp.status = 400
    /\ Cardinality(product_groups) = 2

\* C4: creating a product group under the name of an existing group answers
\* 400 with a detail that says "already exists" and leaves the store as it
\* was; under a name no group has it answers 201 and adds exactly one row,
\* the rest of the store unchanged.
C4_CreateGroupByName ==
    [][ (req'.op = "create" /\ req'.kind = "product_group")
        => IF \E g \in product_groups : g.name = req'.data.name
           THEN /\ resp'.status = 400
                /\ resp'.detail = "Product group with name '" \o req'.data.name
                                  \o "' already exists"
                /\ tables' = tables
           ELSE /\ resp'.status = 201
                /\ product_groups \subseteq product_groups'
                /\ Cardinality(product_groups') = Cardinality(product_groups) + 1
                /\ \E g \in product_groups' \ product_groups :
                       g.name = req'.data.name
                /\ <<products, architectures, variants, artifacts>>'
                   = <<products, architectures, variants, artifacts>>
      ]_vars

\* a create under the name of an existing group has been refused
C4_Witness ==
    /\ req.op = "create" /\ req.kind = "product_group"
    /\ resp.status = 400
    /\ \E g \in product_groups : g.name = req.data.name

\* C5: creating a product, architecture, variant or artifact whose parent id
\* matches no parent row answers 400 and leaves the store unchanged.
C5_CreateMissingParent ==
    [][ (/\ req'.op = "create"
         /\ req'.kind \in ChildKinds
         /\ ~HasId(ParentTable(req'.kind), req'.data[ParentField(req'.kind)]))
        => /\ resp'.status = 400
           /\ resp'.status # 404
           /\ tables' = tables
      ]_vars

\* an artifact create that names a variant that does not exist has been
\* refused, in a store that holds a variant
C5_Witness ==
    /\ req.op = "create" /\ req.kind = "artifact"
    /\ resp.status = 400
    /\ variants # {}
    /\ ~HasId(variants, req.data.variant_id)

\* C6: a successful update sets every field the patch names to the value
\* the patch gives, leaves every other field of the row but updated_at
\* (id and created_at among them) as it was, moves updated_at forward,
\* and changes no other row of any table.
C6_UpdateFrame ==
    [][ (req'.op = "update" /\ resp'.status = 200)
        => LET k == req'.kind
               i == req'.id
               patch == req'.data
               before == Pick(k, product_groups, products, architectures,
                              variants, artifacts)
               after == Pick(k, product_groups', products', architectures',
                             variants', artifacts')
           IN /\ HasId(before, i) /\ HasId(after, i)
              /\ LET old == RowOf(before, i)
                     new == RowOf(after, i)
                 IN /\ DOMAIN new = DOMAIN old
                    /\ \A f \in DOMAIN patch : new[f] = patch[f]
                    /\ \A f \in DOMAIN old \ (DOMAIN patch \cup {"updated_at"}) :
                           new[f] = old[f]
                    /\ new.id = old.id /\ new.created_at = old.created_at
                    /\ new.updated_at > old.updated_at
                    /\ after \ {new} = before \ {old}
                    /\ resp'.body = new
              /\ \A other \in {"product_group", "product", "architecture",
                               "variant", "artifact"} \ {k} :
                     Pick(other, product_groups', products', architectures',
                          variants', artifacts')
                     = Pick(other, product_groups, products, architectures,
                            variants, artifacts)
      ]_vars

\* the fixture artifact has been updated with a patch that names two of
\* its fields, next to another row of the store
C6_Witness ==
    /\ req.op = "update" /\ req.kind = "artifact" /\ resp.status = 200
    /\ DOMAIN req.data = {"size_bytes", "variant_id"}
    /\ resp.body.created_at = sample_artifact.created_at
    /\ resp.body.updated_at > sample_artifact.updated_at
    /\ sample_variant \in variants

\* the update of the row (kind, id) with the patch fails validation: the
\* row exists and the patch names a parent id that matches no parent row,
\* or a product group name, other than the row's own, that a group has
FailsValidation(kind, id, patch) ==
    /\ HasId(Pick(kind, product_groups, products, architectures, variants,
                  artifacts), id)
    /\ IF kind = "product_group"
       THEN /\ "name" \in DOMAIN patch
            /\ patch.name # RowOf(product_groups, id).name
            /\ \E g \in product_groups : g.name = patch.name
       ELSE /\ ParentField(kind) \in DOMAIN patch
            /\ ~HasId(ParentTable(kind), patch[ParentField(kind)])

\* C7: an update that fails validation answers 400 and writes nothing: the
\* target row keeps every field, the other fields of the patch included,
\* and no other row changes.
C7_FailedUpdateWritesNothing ==
    [][ (req'.op = "update" /\ FailsValidation(req'.kind, req'.id, req'.data))
        => /\ resp'.status = 400
           /\ tables' = tables
           /\ now' = now
      ]_vars

\* a rename of a group to the name of another group, in a patch that also
\* names the description, has been refused and the row still has its fields
C7_Witness ==
    /\ req.op = "update" /\ req.kind = "product_group" /\ resp.status = 400
    /\ DOMAIN req.data = {"name", "description"}
    /\ HasId(product_groups, req.id)
    /\ RowOf(product_groups, req.id).name # req.data.name
    /\ RowOf(product_groups, req.id).description # req.data.description
    /\ \E g \in product_groups : g.name = req.data.name

\* C8: a get of the id a successful create has just returned answers the
\* row: every field of the create request with the value supplied, an id
\* that exactly one row of the table has, created_at and updated_at both
\* set and equal.
C8_CreateThenGet ==
    [][ (/\ req.op = "create" /\ resp.status = 201
         /\ req'.op = "get" /\ req'.kind = req.kind
         /\ req'.id = resp.body.id)
        => /\ resp'.status = 200
           /\ \A f \in DOMAIN req.data : resp'.body[f] = req.data[f]
           /\ resp'.body.id = resp.body.id
           /\ Cardinality({r \in Pick(req.kind, product_groups, products,
                                      architectures, variants, artifacts) :
                              r.id = resp'.body.id}) = 1
           /\ resp'.body.created_at \in Int
           /\ resp'.body.updated_at \in Int
           /\ resp'.body.created_at = resp'.body.updated_at
      ]_vars

\* a get has answered the second artifact of the store, created with a
\* location, a region and a size
C8_Witness ==
    /\ req.op = "get" /\ req.kind = "artifact" /\ resp.status = 200
    /\ resp.body.id = 2
    /\ resp.body.name = "a2"
    /\ resp.body.size_bytes = <<2>>
    /\ resp.body.created_at = resp.body.updated_at
    /\ sample_artifact \in artifacts

\* C9: get, update and delete of an id no row of the table has answer 404
\* and leave the store unchanged; a get of the id a successful delete has
\* just removed answers 404.
C9_NotFound ==
    [][ /\ (/\ req'.op \in {"get", "update", "delete"}
            /\ ~HasId(Pick(req'.kind, product_groups, products, architectures,
                           variants, artifacts), req'.id))
           => /\ resp'.status = 404
              /\ tables' = tables
        /\ (/\ req.op = "delete" /\ resp.status = 200
            /\ req'.op = "get" /\ req'.kind = req.kind /\ req'.id = req.id)
           => resp'.status = 404
      ]_vars

\* a get of the fixture artifact answers 404 in a store that still holds
\* the variant of the artifact: the artifact has been deleted
C9_Witness ==
    /\ req.op = "get" /\ req.kind = "artifact" /\ req.id = sample_artifact.id
    /\ resp.status = 404
    /\ sample_variant \in variants
    /\ artifacts = {}

\* C10: after a run of the loader, a second run on the same document with
\* the same blacklist leaves the four tables exactly as the first run left
\* them: it adds no group, product, architecture or variant.
C10_SecondRunAddsNothing ==
    req.op = "bootstrap"
    => LET S == process_product_groups(Session, req.config,
                                       Blacklist(req.blacklist), now + 1)
       IN Committed(S) = [product_groups |-> product_groups,
                          products |-> products,
                          architectures |-> architectures,
                          variants |-> variants]

\* a run has created a group, a product and two variants
C10_Witness ==
    /\ req.op = "bootstrap" /\ resp.status = 0
    /\ resp.stats.product_groups_created = 1
    /\ resp.stats.products_created = 1
    /\ resp.stats.variants_created = 2

(***************************************************************************)
(* Properties of the loader.                                               *)
(***************************************************************************)
\* names compared without regard to case
Upper(s) ==
    CASE s \in {"CIQ-Kernel", "ciq-kernel"} -> "CIQ-KERNEL"
      [] s \in {"Sig-Cloud-Next", "sig-cloud-next"} -> "SIG-CLOUD-NEXT"
      [] s \in {"g1", "G1"} -> "G1"
      [] s = "g2" -> "G2"
      [] s = "g3" -> "G3"
      [] OTHER -> s

\* the group name is on the blacklist the run was given (the default one
\* when it was given none, or an empty one)
Listed(name, arg) ==
    LET given == IF arg.is_none \/ arg.items = <<>>
                 THEN <<"ciq-kernel", "sig-cloud-next">> ELSE arg.items
    IN \E i \in DOMAIN given : Upper(given[i]) = Upper(name)

\* the groups of the document the run works on, in document order
GroupsWorked(config, arg) ==
    IF "product_groups" \in config.keys
    THEN SelectSeq(config.product_groups, LAMBDA g : ~Listed(g.name, arg))
    ELSE <<>>

\* the product entries of a group the run works on: mappings without just_like
IsWorked(e) == e.is_dict /\ "just_like" \notin e.keys
EntriesWorked(g) ==
    IF g.is_dict /\ "products" \in g.keys THEN SelectSeq(g.products, IsWorked) ELSE <<>>

\* the architecture names the run visits for a product entry
ArchesVisited(e) == IF "arches" \in e.keys THEN e.arches ELSE <<"x86_64">>

\* groups + products + per-arch variant steps the run works on
ItemCount(config, arg) ==
    LET gs == GroupsWorked(config, arg)
        ps == UNION {{<<i, j>> : j \in DOMAIN EntriesWorked(gs[i])} : i \in DOMAIN gs}
        vs == UNION {{<<ij[1], ij[2], k>> :
                         k \in DOMAIN ArchesVisited(EntriesWorked(gs[ij[1]])[ij[2]])}
                     : ij \in ps}
    IN Len(gs) + Cardinality(ps) + Cardinality(vs)

\* the entry has the shape the document format gives a product: a mapping
\* whose repository_groups, when present, is a mapping
EntryShaped(e) ==
    /\ e.is_dict
    /\ "repository_groups" \in e.keys => e.repository_groups.is_dict

\* every group and product entry of the document has the shape of the format
WellShaped(config) ==
    \A i \in DOMAIN config.product_groups :
        LET g == config.product_groups[i]
        IN /\ g.is_dict
           /\ \A j \in DOMAIN g.products : EntryShaped(g.products[j])

\* the run that would follow the one just made, on the same document with
\* the same blacklist
SecondRun ==
    process_product_groups(Session, req.config, Blacklist(req.blacklist), now + 1)

Unlisted(config, arg) ==
    [config EXCEPT !.product_groups = GroupsWorked(config, arg)]

\* C12: a run creates no group, product, architecture or variant for a
\* group whose name is on the blacklist, whatever the case of the letters,
\* and counts nothing for it: the run answers and writes exactly what a run
\* without blacklist does on the document with those groups taken out.
C12_BlacklistedGroupsSkipped ==
    [][ req'.op = "bootstrap"
        => LET S == process_product_groups(
                        Session, Unlisted(req'.config, req'.blacklist), {}, now + 1)
           IN /\ resp' = IF S.aborted THEN [status |-> 1]
                         ELSE [status |-> 0, stats |-> S.stats]
              /\ S.aborted => tables' = tables
              /\ ~S.aborted =>
                     /\ product_groups' = S.product_groups
                     /\ products' = S.products
                     /\ architectures' = S.architectures
                     /\ variants' = S.variants
              /\ \A g \in product_groups' \ product_groups :
                     ~Listed(g.name, req'.blacklist)
              /\ \A p \in products' \ products :
                     \A g \in product_groups' :
                         g.id = p.product_group_id => ~Listed(g.name, req'.blacklist)
      ]_vars

\* a run given the blacklist ["G1"] on a document that holds the groups g1
\* and CIQ-Kernel, each with a product, has created CIQ-Kernel and its
\* product and nothing for g1
C12_Witness ==
    /\ req.op = "bootstrap" /\ resp.status = 0
    /\ req.blacklist.items = <<"G1">>
    /\ \E i \in DOMAIN req.config.product_groups :
           /\ req.config.product_groups[i].name = "g1"
           /\ req.config.product_groups[i].products # <<>>
    /\ resp.stats.product_groups_created = 1
    /\ resp.stats.products_created = 1
    /\ resp.stats.skipped = 0
    /\ \A g \in product_groups : g.name = "CIQ-Kernel"

\* no name occurs twice in the list
Distinct(seq) == \A i, j \in DOMAIN seq : seq[i] = seq[j] => i = j

\* the group entries and product entries of the last request's document
\* that the committed run has worked on, as pairs <<group entry, entry>>
Worked(config, arg) ==
    LET gs == GroupsWorked(config, arg)
    IN UNION {{<<gs[i], EntriesWorked(gs[i])[j]>> : j \in DOMAIN EntriesWorked(gs[i])}
              : i \in DOMAIN gs}

\* C13: a committed run that meets a well-shaped entry of a product the
\* group does not hold yet, listing N >= 1 distinct arch names, leaves
\* exactly one product of that name in the group, with exactly N
\* architectures, one per listed name, each holding exactly one variant,
\* named "<product>-<arch>".
C13_OneVariantPerArch ==
    [][ (req'.op = "bootstrap" /\ resp'.status = 0)
        => \A ge \in Worked(req'.config, req'.blacklist) :
           \A g \in {x \in product_groups' : x.name = ge[1].name} :
              LET e == ge[2]
                  was == {p \in products : p.name = e.name /\ p.product_group_id = g.id}
                  ps == {p \in products' : p.name = e.name /\ p.product_group_id = g.id}
              IN (/\ EntryShaped(e) /\ "arches" \in e.keys
                  /\ e.arches # <<>> /\ Distinct(e.arches)
                  /\ was = {})
                 => /\ Cardinality(ps) = 1
                    /\ \A p \in ps :
                       LET as == {a \in architectures' : a.product_id = p.id}
                       IN /\ Cardinality(as) = Len(e.arches)
                          /\ \A k \in DOMAIN e.arches :
                                Cardinality({a \in as : a.name = e.arches[k]}) = 1
                          /\ \A a \in as :
                                LET vs == {v \in variants' : v.architecture_id = a.id}
                                IN /\ Cardinality(vs) = 1
                                   /\ \A v \in vs : v.name = e.name \o "-" \o a.name
      ]_vars

\* a run has imported the new product p1 with arches [x86_64, aarch64]:
\* the store holds the variants p1-x86_64 and p1-aarch64, under two
\* architectures of those names
C13_Witness ==
    /\ req.op = "bootstrap" /\ resp.status = 0
    /\ resp.stats.products_created = 1
    /\ resp.stats.variants_created = 2
    /\ \E a1 \in architectures, a2 \in architectures,
          v1 \in variants, v2 \in variants :
           /\ a1.name = "x86_64" /\ a2.name = "aarch64"
           /\ a1.product_id = a2.product_id
           /\ v1.architecture_id = a1.id /\ v1.name = "p1-x86_64"
           /\ v2.architecture_id = a2.id /\ v2.name = "p1-aarch64"

\* the document without the product entries that hold just_like
WithoutJustLike(config) ==
    [config EXCEPT !.product_groups =
        [i \in DOMAIN @ |->
            [@[i] EXCEPT !.products =
                SelectSeq(@, LAMBDA e : "just_like" \notin e.keys)]]]

\* C14: a run creates no product (hence no architecture or variant) for an
\* entry that holds just_like, and works on the other entries of the group
\* as if the entry were not there: it answers and writes exactly what the
\* run on the document without those entries does.
C14_JustLikeSkipped ==
    [][ req'.op = "bootstrap"
        => LET S == process_product_groups(Session, WithoutJustLike(req'.config),
                                           Blacklist(req'.blacklist), now + 1)
           IN /\ resp' = IF S.aborted THEN [status |-> 1]
                         ELSE [status |-> 0, stats |-> S.stats]
              /\ S.aborted => tables' = tables
              /\ ~S.aborted =>
                     /\ product_groups' = S.product_groups
                     /\ products' = S.products
                     /\ architectures' = S.architectures
                     /\ variants' = S.variants
              /\ \A i \in DOMAIN req'.config.product_groups :
                 \A j \in DOMAIN req'.config.product_groups[i].products :
                    LET ge == req'.config.product_groups[i]
                        e == ge.products[j]
                    IN "just_like" \in e.keys
                       => \A p \in products' \ products :
                          \A g \in product_groups' :
                             (g.id = p.product_group_id /\ g.name = ge.name)
                             => p.name # e.name
      ]_vars

\* a run on a document whose group g1 holds the entry p2 with just_like
\* ahead of the entry p1 has created g1, p1 and the variant of p1, and the
\* store holds no product p2
C14_Witness ==
    /\ req.op = "bootstrap" /\ resp.status = 0
    /\ \E i \in DOMAIN req.config.product_groups :
           LET ge == req.config.product_groups[i]
           IN /\ ge.name = "g1"
              /\ Len(ge.products) = 2
              /\ ge.products[1].name = "p2" /\ "just_like" \in ge.products[1].keys
              /\ ge.products[2].name = "p1"
    /\ resp.stats.product_groups_created = 1
    /\ resp.stats.products_created = 1
    /\ resp.stats.variants_created = 1
    /\ \A p \in products : p.name = "p1"

\* C15 (as stated): a committed run that meets a well-shaped entry of a
\* product the group does not hold yet, whose arches field is absent or
\* an empty list, leaves the product with exactly one architecture, named
\* x86_64, holding exactly one variant, named "<product>-x86_64".
C15_DefaultArch ==
    [][ (req'.op = "bootstrap" /\ resp'.status = 0)
        => \A ge \in Worked(req'.config, req'.blacklist) :
           \A g \in {x \in product_groups' : x.name = ge[1].name} :
              LET e == ge[2]
                  was == {p \in products : p.name = e.name /\ p.product_group_id = g.id}
                  ps == {p \in products' : p.name = e.name /\ p.product_group_id = g.id}
              IN (/\ EntryShaped(e)
                  /\ ("arches" \notin e.keys \/ e.arches = <<>>)
                  /\ was = {})
                 => /\ Cardinality(ps) = 1
                    /\ \A p \in ps :
                       LET as == {a \in architectures' : a.product_id = p.id}
                       IN /\ Cardinality(as) = 1
                          /\ \A a \in as :
                                LET vs == {v \in variants' : v.architecture_id = a.id}
                                IN /\ a.name = "x86_64"
                                   /\ Cardinality(vs) = 1
                                   /\ \A v \in vs : v.name = e.name \o "-x86_64"
      ]_vars

\* a run on a document whose only entry worked on is p1 with arches: []
\* has created the product and no variant, and the product has no
\* architecture
C15_Witness ==
    /\ req.op = "bootstrap" /\ resp.status = 0
    /\ \A ge \in Worked(req.config, req.blacklist) :
           "arches" \in ge[2].keys /\ ge[2].arches = <<>>
    /\ resp.stats.products_created = 1
    /\ resp.stats.variants_created = 0
    /\ resp.stats.errors = 0
    /\ \E p \in products :
           /\ p.created_at = now
           /\ \A a \in architectures : a.product_id # p.id

\* what the run finds in the store for an item of the document
GroupRows(ge) == {g \in product_groups : g.name = ge.name}
ProductRows(ge, e) ==
    {p \in products : /\ p.name = e.name
                      /\ \E g \in GroupRows(ge) : p.product_group_id = g.id}
ArchRows(ge, e, arch) ==
    {a \in architectures : /\ a.name = arch
                           /\ \E p \in ProductRows(ge, e) : a.product_id = p.id}
VariantRows(ge, e, arch) ==
    {v \in variants : \E a \in ArchRows(ge, e, arch) : v.architecture_id = a.id}

\* the lookups that fail the item: more than one row where one is expected,
\* or a repository_groups that is no mapping when the variant is to be built
ProductFails(ge, e) == Cardinality(ProductRows(ge, e)) > 1
ArchFails(ge, e, arch) ==
    \/ Cardinality(ArchRows(ge, e, arch)) > 1
    \/ Cardinality(VariantRows(ge, e, arch)) > 1
    \/ /\ VariantRows(ge, e, arch) = {}
       /\ "repository_groups" \in e.keys
       /\ ~e.repository_groups.is_dict

\* the items of the document whose handler fails, counted
FailingItems(config, arg) ==
    LET ws == Worked(config, arg)
    IN Cardinality({w \in ws : ProductFails(w[1], w[2])})
       + Cardinality(UNION {{<<w, k>> : k \in {i \in DOMAIN ArchesVisited(w[2]) :
                                                 ArchFails(w[1], w[2],
                                                           ArchesVisited(w[2])[i])}}
                            : w \in {x \in ws : ~ProductFails(x[1], x[2])}})

\* no group value of the document fails outside an item handler
GroupsAreMappings(config, arg) ==
    \A i \in DOMAIN GroupsWorked(config, arg) : GroupsWorked(config, arg)[i].is_dict

\* C16: in a run whose failures are all inside item handlers, each failing
\* item adds one to errors and nothing else happens to the run: it commits,
\* every product entry whose own lookup does not fail has its product in
\* the store afterwards, and every arch whose own step does not fail has
\* its architecture with a variant.
C16_ErrorsDoNotAbort ==
    [][ (req'.op = "bootstrap" /\ GroupsAreMappings(req'.config, req'.blacklist))
        => /\ resp'.status = 0
           /\ resp'.stats.errors = FailingItems(req'.config, req'.blacklist)
           /\ \A w \in Worked(req'.config, req'.blacklist) :
                 ~ProductFails(w[1], w[2])
                 => \E g \in product_groups', p \in products' :
                       /\ g.name = w[1].name
                       /\ p.name = w[2].name /\ p.product_group_id = g.id
                       /\ \A k \in DOMAIN ArchesVisited(w[2]) :
                             ~ArchFails(w[1], w[2], ArchesVisited(w[2])[k])
                             => \E a \in architectures', v \in variants' :
                                   /\ a.name = ArchesVisited(w[2])[k]
                                   /\ a.product_id = p.id
                                   /\ v.architecture_id = a.id
      ]_vars

\* a run has counted one error, for the variant of p1 whose
\* repository_groups is a list, and has created and committed the
\* sibling p2 with its variant
C16_Witness ==
    /\ req.op = "bootstrap" /\ resp.status = 0
    /\ resp.stats.errors = 1
    /\ resp.stats.products_created = 2
    /\ resp.stats.variants_created = 1
    /\ \E v \in variants : v.name = "p2-aarch64" /\ v.created_at = now

\* C17: a run in which an exception escapes the item handlers (a group
\* value that is no mapping, met after the group row was flushed) is told
\* to the caller as a failure (exit status 1) and leaves the store as it was
\* before the run, the rows flushed earlier in the run included; a run told
\* as a failure never changes the store.
C17_AbortRollsBack ==
    [][ req'.op = "bootstrap"
        => /\ ~GroupsAreMappings(req'.config, req'.blacklist)
              => /\ resp'.status = 1
                 /\ tables' = tables
                 /\ now' = now
           /\ resp'.status = 1 => tables' = tables
           /\ GroupsAreMappings(req'.config, req'.blacklist) => resp'.status = 0
      ]_vars

\* a run has failed on its second group, which is no mapping, after
\* flushing the first group with a product and its variant: the store
\* is as empty as before
C17_Witness ==
    /\ req.op = "bootstrap" /\ resp.status = 1
    /\ Len(req.config.product_groups) = 2
    /\ req.config.product_groups[1].is_dict
    /\ req.config.product_groups[1].products # <<>>
    /\ ~req.config.product_groups[2].is_dict
    /\ product_groups = {} /\ products = {}
    /\ architectures = {} /\ variants = {}

\* the document without the product entries that are not mappings
WithoutMalformed(config) ==
    [config EXCEPT !.product_groups =
        [i \in DOMAIN @ |->
            [@[i] EXCEPT !.products = SelectSeq(@, LAMBDA e : e.is_dict)]]]

\* the product entries that are not mappings, in the groups a run works on
MalformedMet(config, arg) ==
    LET gs == GroupsWorked(config, arg)
    IN UNION {{<<gs[i].name, gs[i].products[j].name>> :
                  j \in {k \in DOMAIN gs[i].products : ~gs[i].products[k].is_dict}}
              : i \in {k \in DOMAIN gs : gs[k].is_dict /\ "products" \in gs[k].keys}}

\* C20: a committed run that meets a product entry that is not a mapping
\* creates no row for it and goes on with the entries after it (it writes
\* exactly what the run on the document without such entries writes), and
\* counts the entry: some counter of the run stands higher than it does
\* after the run on the document without such entries.
C20_MalformedCounted ==
    [][ ( /\ req'.op = "bootstrap"
          /\ resp'.status = 0
          /\ MalformedMet(req'.config, req'.blacklist) # {} )
        => LET S == process_product_groups(Session, WithoutMalformed(req'.config),
                                           Blacklist(req'.blacklist), now + 1)
           IN /\ product_groups' = S.product_groups
              /\ products' = S.products
              /\ architectures' = S.architectures
              /\ variants' = S.variants
              /\ \E k \in DOMAIN resp'.stats : resp'.stats[k] > S.stats[k]
      ]_vars

\* a run on a document whose group g2 holds the scalar entry p2 ahead of
\* the entry p1 has created g2, p1 and the variant of p1, and every counter
\* it reports is accounted for by those rows: nothing counts p2
C20_Witness ==
    /\ req.op = "bootstrap" /\ resp.status = 0
    /\ \E i \in DOMAIN req.config.product_groups :
           LET ge == req.config.product_groups[i]
           IN /\ ge.name = "g2"
              /\ Len(ge.products) = 2
              /\ ge.products[1].name = "p2" /\ ~ge.products[1].is_dict
              /\ ge.products[2].name = "p1"
    /\ \E g \in product_groups, p \in products :
           g.name = "g2" /\ p.name = "p1" /\ p.product_group_id = g.id
    /\ \A p \in products : p.name # "p2"
    /\ resp.stats.product_groups_created = 1
    /\ resp.stats.products_created = 1
    /\ resp.stats.variants_created = 1
    /\ resp.stats.skipped = 0
    /\ resp.stats.errors = 0

(***************************************************************************)
(* Properties of the list handlers and the artifact statistics.            *)
(***************************************************************************)
\* the sizes added by hand, a missing size counting 0
RECURSIVE Tally(_)
Tally(rows) ==
    IF rows = {} THEN 0
    ELSE LET r == CHOOSE r \in rows : TRUE
         IN (IF r.size_bytes = NoInt THEN 0 ELSE r.size_bytes[1]) + Tally(rows \ {r})

\* C18: the statistics request answers, for the artifact rows the store holds,
\* by_type with exactly the artifact types present, each with its number of
\* rows, by_status likewise for the statuses, and total_size_bytes as the sum
\* of the sizes with a missing size counted as 0; over an empty artifact
\* table it answers empty maps and a total of 0; and it leaves every table
\* as it was.
C18_Stats ==
    [][req'.op = "stats" =>
        /\ resp'.status = 200
        /\ DOMAIN resp'.body.by_type = {a.artifact_type : a \in artifacts}
        /\ \A k \in DOMAIN resp'.body.by_type :
              resp'.body.by_type[k]
                  = Cardinality({a \in artifacts : a.artifact_type = k})
        /\ DOMAIN resp'.body.by_status = {a.status : a \in artifacts}
        /\ \A k \in DOMAIN resp'.body.by_status :
              resp'.body.by_status[k] = Cardinality({a \in artifacts : a.status = k})
        /\ resp'.body.total_size_bytes = Tally(artifacts)
        /\ (artifacts = {} =>
              resp'.body = [by_type |-> NoFields, by_status |-> NoFields,
                            total_size_bytes |-> 0])
        /\ tables' = tables]_vars

\* statistics answered over two completed artifacts, one without a size and
\* one of size 2
C18_Witness ==
    /\ req.op = "stats"
    /\ Cardinality(artifacts) = 2
    /\ \E a \in artifacts : a.size_bytes = NoInt
    /\ resp.body.total_size_bytes = 2
    /\ "completed" \in DOMAIN resp.body.by_status
    /\ resp.body.by_status["completed"] = 2
    /\ Cardinality(DOMAIN resp.body.by_type) = 2

\* the filters of a list request that name a parent id
ParentIdFilters == {"product_group_id", "product_id", "architecture_id", "variant_id"}

\* the row has, in every filter the request supplies, the value supplied
Matches(row, filters) ==
    \A f \in DOMAIN filters :
        IF f \in ParentIdFilters
        THEN filters[f] = NoInt \/ row[f] = filters[f][1]
        ELSE filters[f] = NULL \/ row[f] = filters[f]

\* body is rows, newest-created first, less the first skip of them and cut
\* to at most limit
IsPageOf(body, rows, skip, limit) ==
    LET rest == IF Cardinality(rows) > skip THEN Cardinality(rows) - skip ELSE 0
    IN /\ Len(body) = IF rest < limit THEN rest ELSE limit
       /\ \A i \in DOMAIN body : body[i] \in rows
       /\ \A i, j \in DOMAIN body : i # j => body[i] # body[j]
       /\ \A i, j \in DOMAIN body :
             i < j => body[i].created_at >= body[j].created_at
       /\ \A i \in DOMAIN body :
             /\ Cardinality({r \in rows : r.created_at > body[i].created_at})
                    <= skip + i - 1
             /\ Cardinality({r \in rows : r.created_at >= body[i].created_at})
                    >= skip + i

\* C19: a list request answers exactly the rows of its kind that match every
\* filter it supplies (all rows when it supplies none), newest-created
\* first, less the first skip rows and cut to at most limit rows; over an
\* empty store the answer is the empty list.
C19_ListFiltered ==
    [][req'.op = "list" =>
        LET table == Pick(req'.kind, product_groups, products, architectures,
                          variants, artifacts)
            rows == {r \in table : Matches(r, req'.filters)}
        IN /\ resp'.status = 200
           /\ IsPageOf(resp'.body, rows, req'.skip, req'.limit)
           /\ (table = {} => resp'.body = <<>>)]_vars

\* a list of products asked for product group 0, which no product belongs
\* to, answered with a product
C19_Witness ==
    /\ req.op = "list"
    /\ req.kind = "product"
    /\ req.filters.product_group_id = <<0>>
    /\ Len(resp.body) > 0
    /\ \A i \in DOMAIN resp.body : resp.body[i].product_group_id # 0

(***************************************************************************)
(* Properties of the product group rename.                                 *)
(***************************************************************************)
\* C22: an update of an existing product group that supplies a name checks
\* the name against the other groups only: the group's own current name is
\* accepted, a name another group holds is refused with 400 and a message
\* naming it, nothing written, and a name no group holds is accepted and
\* becomes the group's name, the other groups staying as they were.
C22_RenameExcludesSelf ==
    [][ ( /\ req'.op = "update" /\ req'.kind = "product_group"
          /\ HasId(product_groups, req'.id)
          /\ "name" \in DOMAIN req'.data
          /\ req'.data.name # NULL )
        => LET self == RowOf(product_groups, req'.id)
               others == product_groups \ {self}
           IN IF \E g \in others : g.name = req'.data.name
              THEN /\ resp'.status = 400
                   /\ resp'.detail = AlreadyExists(req'.data.name)
                   /\ tables' = tables
              ELSE /\ resp'.status = 200
                   /\ resp'.body.id = req'.id
                   /\ resp'.body.name = req'.data.name
                   /\ product_groups' = others \cup {resp'.body}
                   /\ <<products, architectures, variants, artifacts>>'
                      = <<products, architectures, variants, artifacts>>
      ]_vars

\* group 2, named G1, asked to take the name g1 that group 1 holds, was
\* answered 400 and both groups kept their names
C22_Witness ==
    /\ req.op = "update" /\ req.kind = "product_group"
    /\ req.id = 2
    /\ "name" \in DOMAIN req.data /\ req.data.name = "g1"
    /\ resp.status = 400
    /\ \E g \in product_groups : g.id = 1 /\ g.name = "g1"
    /\ \E g \in product_groups : g.id = 2 /\ g.name = "G1"

(***************************************************************************)
(* Further properties of the loader.                                       *)
(***************************************************************************)
\* the ids of the groups of a name, and the products of a name under them
GroupIds(groups, name) == {g.id : g \in {h \in groups : h.name = name}}
ProductsUnder(groups, rows, group_name, name) ==
    {p \in rows : p.name = name /\ p.product_group_id \in GroupIds(groups, group_name)}

ArchVisits(config, arg) ==
    UNION {{<<w[1], w[2], arch>> : arch \in Range(ArchesVisited(w[2]))}
           : w \in Worked(config, arg)}

\* nothing but the variants of an architecture can make a step of the run
\* fail: the groups and entries have the shape of the format, no group
\* holds two products of an entry's name and no product two architectures
\* of an arch name
OnlyVariantsInDoubt(config, arg) ==
    /\ GroupsAreMappings(config, arg)
    /\ \A w \in Worked(config, arg) : EntryShaped(w[2]) /\ ~ProductFails(w[1], w[2])
    /\ \A x \in ArchVisits(config, arg) : Cardinality(ArchRows(x[1], x[2], x[3])) <= 1

\* the groups, products and architectures-with-a-variant the run finds in
\* the store, counted
FoundInStore(config, arg) ==
    LET gs == GroupsWorked(config, arg)
    IN Cardinality({i \in DOMAIN gs : GroupRows(gs[i]) # {}})
       + Cardinality({w \in Worked(config, arg) : ProductRows(w[1], w[2]) # {}})
       + Cardinality({x \in ArchVisits(config, arg) : VariantRows(x[1], x[2], x[3]) # {}})

\* C24: for each architecture a run visits: when the architecture already
\* has at least one variant, the run creates no variant for it and counts
\* the visit in skipped, not in errors; otherwise it creates exactly one
\* variant; so a run never raises the number of variants of an architecture
\* above one.
C24_VariantFoundIsSkipped ==
    [][ (req'.op = "bootstrap" /\ OnlyVariantsInDoubt(req'.config, req'.blacklist))
        => /\ resp'.status = 0
           /\ resp'.stats.errors = 0
           /\ resp'.stats.skipped = FoundInStore(req'.config, req'.blacklist)
           /\ \A x \in ArchVisits(req'.config, req'.blacklist) :
                 LET was == VariantRows(x[1], x[2], x[3])
                     as == {a \in architectures' :
                              /\ a.name = x[3]
                              /\ \E g \in product_groups', p \in products' :
                                    /\ g.name = x[1].name
                                    /\ p.name = x[2].name /\ p.product_group_id = g.id
                                    /\ a.product_id = p.id}
                     vs == {v \in variants' : \E a \in as : v.architecture_id = a.id}
                 IN /\ Cardinality(as) = 1
                    /\ IF was # {} THEN vs = was ELSE Cardinality(vs) = 1
           /\ \A a \in architectures' :
                 LET vs == {v \in variants' : v.architecture_id = a.id}
                 IN Cardinality(vs) > 1 => vs \subseteq variants
      ]_vars

\* a run has visited the architecture x86_64 of p1, which held two variants:
\* it created no variant and reported the visit in errors, with skipped
\* counting the group and the product only
C24_Witness ==
    /\ req.op = "bootstrap" /\ resp.status = 0
    /\ OnlyVariantsInDoubt(req.config, req.blacklist)
    /\ \E x \in ArchVisits(req.config, req.blacklist) :
          Cardinality(VariantRows(x[1], x[2], x[3])) = 2
    /\ resp.stats.variants_created = 0
    /\ resp.stats.errors = 1
    /\ resp.stats.skipped = 2

\* C27: a run updates and deletes no row that was in the store before it:
\* every product group, product, architecture and variant of before the
\* run is in the store after it with every field as it was (a product found
\* by name keeps its version, a variant found keeps its build_config,
\* whatever the document gives now), rows the document does not name
\* included, and the artifacts are as they were.
C27_RunKeepsExistingRows ==
    [][ req'.op = "bootstrap"
        => /\ product_groups \subseteq product_groups'
           /\ products \subseteq products'
           /\ architectures \subseteq architectures'
           /\ variants \subseteq variants'
           /\ artifacts' = artifacts
      ]_vars

\* a run on a document that gives p1 of g1 the releasever 10 and a build
\* configuration has found the product p1 of version 9 and its variant
\* without build_config, counted group, product and variant as skipped,
\* and left both rows as they were
C27_Witness ==
    /\ req.op = "bootstrap" /\ resp.status = 0
    /\ resp.stats.skipped = 3
    /\ \E i \in DOMAIN req.config.product_groups :
          /\ req.config.product_groups[i].name = "g1"
          /\ \E j \in DOMAIN req.config.product_groups[i].products :
                LET e == req.config.product_groups[i].products[j]
                IN e.name = "p1" /\ "releasever" \in e.keys /\ e.releasever = 10
    /\ \E g \in product_groups, p \in products, a \in architectures, v \in variants :
          /\ g.name = "g1"
          /\ p.name = "p1" /\ p.product_group_id = g.id
          /\ p.version = "9" /\ p.updated_at < now
          /\ a.name = "x86_64" /\ a.product_id = p.id
          /\ v.architecture_id = a.id
          /\ v.build_config = NullDoc /\ v.updated_at < now

\* the steps of a run that keep a count: one for each group worked on, one
\* for each product entry worked on, and one for each arch of an entry whose
\* product was found or created
StepsCounted(config, arg) ==
    Len(GroupsWorked(config, arg))
    + Cardinality(Worked(config, arg))
    + Cardinality(UNION {{<<w, k>> : k \in DOMAIN ArchesVisited(w[2])}
                         : w \in {x \in Worked(config, arg) : ~ProductFails(x[1], x[2])}})

\* C28: after a run that commits, product_groups_created, products_created
\* and variants_created are the numbers of product group, product and
\* variant rows the run added to the store, and the five counters together
\* add up to the number of group, product and per-arch steps the run made:
\* each step added one to exactly one of its created counter, skipped and
\* errors.
C28_CountersMatchRows ==
    [][ (req'.op = "bootstrap" /\ resp'.status = 0)
        => /\ resp'.stats.product_groups_created
                 = Cardinality(product_groups' \ product_groups)
           /\ resp'.stats.products_created = Cardinality(products' \ products)
           /\ resp'.stats.variants_created = Cardinality(variants' \ variants)
           /\ resp'.stats.product_groups_created + resp'.stats.products_created
                 + resp'.stats.variants_created + resp'.stats.skipped
                 + resp'.stats.errors
              = StepsCounted(req'.config, req'.blacklist)
      ]_vars

\* a committed run in which steps of all three kinds occurred: it found
\* the group and a product (skipped 2), failed one variant (errors 1) and
\* created a product and a variant, which are the rows stamped by the run
C28_Witness ==
    /\ req.op = "bootstrap" /\ resp.status = 0
    /\ resp.stats.skipped = 2
    /\ resp.stats.errors = 1
    /\ resp.stats.products_created = 1
    /\ resp.stats.variants_created = 1
    /\ Cardinality({p \in products : p.created_at = now}) = 1
    /\ Cardinality({v \in variants : v.created_at = now}) = 1

\* C29: after a run that commits, every architecture row the run created
\* has exactly one variant: a failure caught while the variant is built
\* leaves no architecture without a variant behind.
C29_NoArchitectureWithoutVariant ==
    [][ (req'.op = "bootstrap" /\ resp'.status = 0)
        => \A a \in architectures' \ architectures :
              Cardinality({v \in variants' : v.architecture_id = a.id}) = 1
      ]_vars

\* a committed run has counted one error, for the variant of an entry whose
\* repository_groups is a list, and the architecture it created for that
\* entry is in the store without a variant
C29_Witness ==
    /\ req.op = "bootstrap" /\ resp.status = 0
    /\ resp.stats.errors = 1
    /\ \E i \in DOMAIN req.config.product_groups :
       \E j \in DOMAIN req.config.product_groups[i].products :
          LET e == req.config.product_groups[i].products[j]
          IN /\ e.is_dict /\ "repository_groups" \in e.keys
             /\ ~e.repository_groups.is_dict
             /\ \E p \in products, a \in architectures :
                   /\ p.name = e.name /\ a.product_id = p.id
                   /\ a.created_at = now
                   /\ \A v \in variants : v.architecture_id # a.id

\* the names of the default blacklist, in capitals
DefaultNames == {"CIQ-KERNEL", "SIG-CLOUD-NEXT"}

\* C30: the blacklist a run is given replaces the default one only when it
\* is not empty.  Given none or an empty list, the run creates no group
\* whose name is, in any case of the letters, CIQ-Kernel or sig-cloud-next,
\* and when it commits every other group of the document is in the store;
\* given a list with names, the run creates no group whose name is, in any
\* case of the letters, on the list, and when it commits every other group of
\* the document, those of the default names included, is in the store.
C30_DefaultBlacklistFallback ==
    [][ (req'.op = "bootstrap" /\ "product_groups" \in req'.config.keys)
        => LET arg == req'.blacklist
               fallback == arg.is_none \/ arg.items = <<>>
               Barred(name) ==
                   IF fallback THEN Upper(name) \in DefaultNames
                   ELSE \E i \in DOMAIN arg.items : Upper(arg.items[i]) = Upper(name)
           IN /\ \A g \in product_groups' \ product_groups : ~Barred(g.name)
              /\ resp'.status = 0 =>
                    \A i \in DOMAIN req'.config.product_groups :
                       LET name == req'.config.product_groups[i].name
                       IN ~Barred(name) => \E g \in product_groups' : g.name = name
      ]_vars

\* a run given the empty list, on a document that holds the groups g1 and
\* CIQ-Kernel, has created g1 and its product and no group CIQ-Kernel
C30_Witness ==
    /\ req.op = "bootstrap" /\ resp.status = 0
    /\ ~req.blacklist.is_none /\ req.blacklist.items = <<>>
    /\ \E i \in DOMAIN req.config.product_groups :
          req.config.product_groups[i].name = "CIQ-Kernel"
    /\ \E g \in product_groups : g.name = "g1" /\ g.created_at = now
    /\ \A g \in product_groups : g.name # "CIQ-Kernel"
    /\ resp.stats.product_groups_created = 1
    /\ resp.stats.products_created = 1

(***************************************************************************)
(* Properties of requests in flight together.                              *)
(***************************************************************************)
\* C25: however two requests to create a product group of one name are
\* interleaved, both name lookups before either commit included, the
\* committed store never holds two groups of a name, and at most one of the
\* two requests is answered 201.
C25_OneGroupPerNameUnderRace ==
    /\ \A g, h \in product_groups : g.name = h.name => g = h
    /\ \A c, d \in Clients :
          ( /\ c # d
            /\ req[c].op = "create" /\ req[c].kind = "product_group"
            /\ req[d].op = "create" /\ req[d].kind = "product_group"
            /\ req[c].data.name = req[d].data.name )
          => ~(resp[c].status = 201 /\ resp[d].status = 201)

\* both clients asked to create g1 and both found the name free; client 1
\* was answered 201, client 2 met the unique index at its commit and was
\* answered 500, and the store holds one group g1
C25_Witness ==
    /\ req[1].op = "create" /\ req[1].kind = "product_group" /\ req[1].pc = "done"
    /\ req[2].op = "create" /\ req[2].kind = "product_group" /\ req[2].pc = "done"
    /\ req[1].data.name = "g1" /\ req[2].data.name = "g1"
    /\ resp[1].status = 201
    /\ resp[2].status = 500
    /\ Cardinality({g \in product_groups : g.name = "g1"}) = 1

\* C26: however a request to create a product is interleaved with a request
\* to delete the product group it names, no committed state holds a product
\* whose product group is absent.
C26_NoOrphanUnderRace ==
    \A p \in products : \E g \in product_groups : g.id = p.product_group_id

\* client 1 found group 1 and went on to create a product under it, client
\* 2 deleted group 1 meanwhile, both were answered success, and the store
\* holds the product without its group
C26_Witness ==
    /\ req[1].op = "create" /\ req[1].kind = "product" /\ req[1].pc = "done"
    /\ req[2].op = "delete" /\ req[2].kind = "product_group" /\ req[2].pc = "done"
    /\ req[1].data.product_group_id = req[2].id
    /\ resp[1].status = 201
    /\ resp[2].status = 200
    /\ resp[1].body \in products
    /\ \A g \in product_groups : g.id # resp[1].body.product_group_id

\* the products a run in flight created in its session under a group that
\* was in the store when it made its lookups, as name and group id
CreatedUnderExisting(r) ==
    {<<p.name, p.product_group_id>> :
        p \in {q \in r.session.products \ r.start.products :
                  \E g \in r.start.product_groups : g.id = q.product_group_id}}

\* C21: two runs against one store can race on the existence check of a
\* product.  Whenever two runs have both looked for a product of the same
\* name under the same existing group, both found none, and both committed,
\* the store holds two product rows of that name under that group; and
\* there is an interleaving in which this happens (the witness).
C21_RacingRunsDuplicateProduct ==
    \A c, d \in Clients :
        ( /\ c # d
          /\ req[c].op = "bootstrap" /\ req[c].pc = "done" /\ resp[c].status = 0
          /\ req[d].op = "bootstrap" /\ req[d].pc = "done" /\ resp[d].status = 0 )
        => \A k \in CreatedUnderExisting(req[c]) \cap CreatedUnderExisting(req[d]) :
              Cardinality({p \in products : p.name = k[1] /\ p.product_group_id = k[2]})
                  >= 2

\* two runs of one document, against a store that held the group g1 and no
\* product, have both found no product p1 under g1, both created it and
\* both committed: the store holds two products p1 under g1
C21_Witness ==
    /\ req[1].op = "bootstrap" /\ req[1].pc = "done" /\ resp[1].status = 0
    /\ req[2].op = "bootstrap" /\ req[2].pc = "done" /\ resp[2].status = 0
    /\ req[1].config = req[2].config
    /\ req[1].start = req[2].start
    /\ \E g \in req[1].start.product_groups : g.name = "g1"
    /\ resp[1].stats.products_created = 1
    /\ resp[2].stats.products_created = 1
    /\ \E p, q \in products :
          /\ p # q
          /\ p.name = "p1" /\ q.name = "p1"
          /\ p.product_group_id = q.product_group_id
          /\ \E g \in product_groups : g.id = p.product_group_id /\ g.name = "g1"
====
